---- MODULE Spec2Model ----
(***************************************************************************)
(* A model of ticket-ninja's knowledge-base core: the partitioned vector   *)
(* store (ai-gateway/app/services/vector_store.py), the bounded            *)
(* breadth-first crawler (data-foundry/app/services/crawler.py), the       *)
(* chunker (data-foundry/app/services/parser.py) and the ingestion run     *)
(* that joins them (data-foundry/app/services/ingest.py).                  *)
(*                                                                         *)
(* Python strings are modelled as sequences of tokens (atomic substrings): *)
(* concatenation is \o, startswith is a prefix test, slicing is SubSeq.    *)
(* None is the one-token sequence <<"None">>, which no modelled string     *)
(* equals.                                                                 *)
(***************************************************************************)
EXTENDS Integers, Sequences, FiniteSets, TLC

VARIABLES
    collections,  \* the Qdrant server: collection name -> (point id -> point)
    args,         \* WebCrawler.crawl: the arguments of the call
    pc,           \* where the crawl coroutine stands: "loop", "fetch", "done"
    queue,        \* the frontier, a FIFO of <<url, depth>>
    visited,      \* the URLs taken from the frontier so far
    pages,        \* the CrawledPages gathered so far, as [url, depth, links]
    errors,       \* the error messages so far, as [url, kind]
    current,      \* <<url, depth>> of the fetch in flight
    fetched,      \* history: the URLs handed to client.get, in order
    caller,       \* who called chunk_text: "run_ingest" or "direct"
    text_in,      \* chunk_text's text
    chunk_size,   \* chunk_text's chunk_size
    overlap,      \* chunk_text's overlap
    words,        \* chunk_text's words = text.split()
    start,        \* chunk_text's start
    chunks,       \* chunk_text's chunks, and its return value at the end
    chunk_pc,     \* where chunk_text is: "idle", "loop" or "done"
    req,          \* ingest_documents: the IngestRequest
    run_pc,       \* where the ingestion stands: "received", "crawl", "pages",
                  \* "chunking", "store", "returned", "rejected" or "raised"
    stats,        \* run_ingest's IngestStats
    page_index,   \* run_ingest: the position in `pages` of the page at hand
    page_chunks,  \* run_ingest: the chunks of the page at hand
    chunk_index,  \* run_ingest: idx, the position of the chunk at hand
    chunked,      \* history: per chunk_text call of a run, [page, n chunks]
    attempts,     \* history: per add_entry call of a run, [page, idx, ret, fault]
    writers       \* the add_entry calls that run side by side: per call
                  \* [pc, entry, names, ret]

storeVars == <<collections>>

crawlVars == <<args, pc, queue, visited, pages, errors, current, fetched>>

chunkVars == <<caller, text_in, chunk_size, overlap, words, start, chunks, chunk_pc>>

runVars == <<req, run_pc, stats, page_index, page_chunks, chunk_index, chunked, attempts>>

writerVars == <<writers>>

vars == <<collections, args, pc, queue, visited, pages, errors, current, fetched,
          caller, text_in, chunk_size, overlap, words, start, chunks, chunk_pc,
          req, run_pc, stats, page_index, page_chunks, chunk_index, chunked, attempts,
          writers>>

None == <<"None">>

\* Python truthiness of an Optional[str]: None and "" are falsy.
Truthy(s) == s # None /\ s # <<>>

\* str.startswith
StartsWith(s, prefix) ==
    /\ Len(s) >= Len(prefix)
    /\ SubSeq(s, 1, Len(prefix)) = prefix

(***************************************************************************)
(* shared_kb/models.py                                                     *)
(***************************************************************************)
COMMON == <<"KnowledgeBaseType.COMMON">>
TENANT == <<"KnowledgeBaseType.TENANT">>

KnowledgeBaseType == {COMMON, TENANT}

\* KnowledgeBaseType.<member>.value
KbTypeValue(m) == IF m = COMMON THEN <<"common">> ELSE <<"tenant">>

\* KnowledgeBaseType(value): the member with that value
KbTypeOf(v) == CHOOSE m \in KnowledgeBaseType : KbTypeValue(m) = v

DATABASE == <<"ITIssueCategory.DATABASE">>
KUBERNETES == <<"ITIssueCategory.KUBERNETES">>

\* Two of the ten members; the others behave alike.
ITIssueCategory == {DATABASE, KUBERNETES}

\* ITIssueCategory.<member>.value
CategoryValue(m) == IF m = DATABASE THEN <<"database">> ELSE <<"kubernetes">>

\* ITIssueCategory(value): the member with that value
CategoryOf(v) == CHOOSE m \in ITIssueCategory : CategoryValue(m) = v

\* A datetime is <<date, time, utcoffset>>; utcoffset "" is a naive datetime.
NaiveTime == <<"2024-01-01", "12:00:00", "">>
AwareTime == <<"2024-01-01", "12:00:00", "+00:00">>

\* datetime.isoformat(): "<date>T<time>[<offset>]"
isoformat(d) == <<d[1], "T", d[2]>> \o (IF d[3] = "" THEN <<>> ELSE <<d[3]>>)

\* datetime.fromisoformat()
fromisoformat(s) == <<s[1], s[3], IF Len(s) > 3 THEN s[4] ELSE "">>

\* A KnowledgeBaseEntry.  title stands for every str / List[str] field that is
\* stored verbatim (title, phenomenon, root_cause_analysis, solutions, tags,
\* source_url, source_type, ticket_key, ticket_id); created_at for both
\* timestamps.
Entry(id, tenant_id, kb_type, title, category, created_at) ==
    [id |-> id, tenant_id |-> tenant_id, kb_type |-> kb_type, title |-> title,
     category |-> category, created_at |-> created_at]

\* KnowledgeBaseEntry.to_searchable_text; raises AttributeError on a None
\* category (self.category.value), which callers test with category = None.
to_searchable_text(e) == <<"Title: ">> \o e.title \o <<"Category: ">> \o CategoryValue(e.category)

to_dict(e) ==
    [id |-> e.id,
     tenant_id |-> e.tenant_id,
     kb_type |-> KbTypeValue(e.kb_type),
     title |-> e.title,
     category |-> CategoryValue(e.category),
     created_at |-> IF e.created_at # None THEN isoformat(e.created_at) ELSE None]

from_dict(data) ==
    [id |-> data.id,
     tenant_id |-> data.tenant_id,
     kb_type |-> KbTypeOf(data.kb_type),
     title |-> data.title,
     category |-> CategoryOf(data.category),
     created_at |-> IF Truthy(data.created_at)
                    THEN fromisoformat(data.created_at)
                    ELSE data.created_at]

(***************************************************************************)
(* shared_kb/embeddings.py: the embedding model is a black box             *)
(* text -> vector.  Vectors are modelled as directions in the plane, in    *)
(* degrees; Qdrant's cosine score is scaled by 100.                        *)
(***************************************************************************)
Has(text, token) == \E i \in 1..Len(text) : text[i] = token

generate_embedding(text) ==
    (IF Has(text, "B") THEN 45 ELSE 0) + (IF Has(text, "kubernetes") THEN 90 ELSE 0)

Abs(x) == IF x < 0 THEN -x ELSE x

\* Distance.COSINE, scaled by 100
Cosine(u, v) ==
    LET a == Abs(u - v)
    IN  CASE a = 0 -> 100
          [] a = 45 -> 70
          [] a = 90 -> 0
          [] a = 135 -> -70
          [] OTHER -> -100

(***************************************************************************)
(* The values the operations of the store are exercised with.              *)
(***************************************************************************)
Ids == {<<"e1">>, <<"e2">>}

TenantIds == {<<"acme">>, <<"globex">>}

Titles == {<<"A">>, <<"B">>}

Queries == {<<"A">>, <<"B">>, <<"kubernetes">>}

\* The content of an entry: its text and its timestamps.
Contents ==
    {[title |-> <<"A">>, created_at |-> None],
     [title |-> <<"B">>, created_at |-> AwareTime]}

\* Shared-tier entries: valid ones of both categories, ones without category,
\* one without id, and one that carries a tenant_id.
CommonEntries ==
    {Entry(id, None, COMMON, c.title, cat, c.created_at) :
        id \in Ids, cat \in {DATABASE, None}, c \in Contents}
    \cup {Entry(id, None, COMMON, <<"A">>, KUBERNETES, None) : id \in Ids}
    \cup {Entry(None, None, COMMON, <<"A">>, DATABASE, None),
          Entry(<<"e1">>, <<"acme">>, COMMON, <<"A">>, DATABASE, NaiveTime)}

\* Tenant-tier entries: valid ones of both tenants, ones without tenant_id
\* (None and ""), one without id, and one without category.
TenantEntries ==
    {Entry(id, t, TENANT, <<"B">>, DATABASE, NaiveTime) : id \in Ids, t \in TenantIds}
    \cup {Entry(<<"e1">>, t, TENANT, <<"B">>, DATABASE, NaiveTime) : t \in {None, <<>>}}
    \cup {Entry(None, <<"acme">>, TENANT, <<"B">>, DATABASE, NaiveTime),
          Entry(<<"e2">>, <<"acme">>, TENANT, <<"A">>, None, None)}

Entries == CommonEntries \cup TenantEntries

(***************************************************************************)
(* ai-gateway/app/services/vector_store.py                                 *)
(***************************************************************************)
COMMON_COLLECTION_PREFIX == <<"kb_", "common_">>
TENANT_COLLECTION_PREFIX == <<"kb_", "tenant_">>

\* A naming that drops the category: one collection for the shared tier.
get_common_collection_name_one_for_all(category) ==
    COMMON_COLLECTION_PREFIX \o <<"database">>

get_common_collection_name(category) == COMMON_COLLECTION_PREFIX \o CategoryValue(category)

\* A naming that drops the tenant id: every tenant shares one collection.
get_tenant_collection_name_shared(tenant_id) == TENANT_COLLECTION_PREFIX \o <<"tenants">>

\* A tenant naming that leaves out the tier's part of the prefix.
get_tenant_collection_name_untiered(tenant_id) == <<"kb_">> \o tenant_id

get_tenant_collection_name(tenant_id) == TENANT_COLLECTION_PREFIX \o tenant_id

CommonNames == {get_common_collection_name(c) : c \in ITIssueCategory}

TenantNames == {get_tenant_collection_name(t) : t \in TenantIds}

AllNames == CommonNames \cup TenantNames

\* A collection without points.
NoPoints == [i \in {} |-> None]

PointStruct(id, vector, payload) == [id |-> id, vector |-> vector, payload |-> payload]

\* A backend fault: the collections whose ensure step (get_collections or
\* create_collection) raises, and those whose upsert raises.
NoFault == [ensure |-> {}, upsert |-> {}]

Faults == {NoFault, [ensure |-> AllNames, upsert |-> {}], [ensure |-> {}, upsert |-> AllNames]}

\* client.create_collection
create_collection(cols, name) ==
    [n \in DOMAIN cols \cup {name} |-> IF n \in DOMAIN cols THEN cols[n] ELSE NoPoints]

\* An ensure that recreates the collection, as recreate_collection does.
ensure_collection_recreating(cols, name, fault) ==
    IF name \in fault.ensure THEN cols
    ELSE [n \in DOMAIN cols \cup {name} |-> IF n = name THEN NoPoints ELSE cols[n]]

\* VectorStore._ensure_collection: any exception is swallowed.
ensure_collection(cols, name, fault) ==
    IF name \in fault.ensure THEN cols
    ELSE IF name \notin DOMAIN cols THEN create_collection(cols, name)
    ELSE cols

\* client.upsert of a list of points into an existing collection
RECURSIVE upsert(_, _, _)
upsert(cols, name, points) ==
    IF points = <<>> THEN cols
    ELSE LET p == Head(points)
             one == [cols EXCEPT ![name] =
                        [i \in DOMAIN cols[name] \cup {p.id} |->
                            IF i = p.id THEN p ELSE cols[name][i]]]
         IN  upsert(one, name, Tail(points))

\* The ids stored anywhere: uuid4 never returns one of them.
UsedIds == UNION {DOMAIN collections[n] : n \in DOMAIN collections}

\* A routing that drops the tier test: every entry goes by its category.
TargetName_by_category(e) == get_common_collection_name(e.category)

\* The partition an entry is routed to (add_entry lines 104-113).
TargetName(e) ==
    IF e.kb_type = COMMON THEN get_common_collection_name(e.category)
    ELSE get_tenant_collection_name(e.tenant_id)

\* The tier-specific required field is present (lines 105, 110).
HasRequiredField(e) ==
    IF e.kb_type = COMMON THEN Truthy(e.category) ELSE Truthy(e.tenant_id)

\* VectorStore.add_entry on the store `cols`: the store afterwards, what the
\* call returned or raised, and the entry as the caller sees it afterwards.
add_entry_result(cols, entry, uuid, fault) ==
    LET e == IF entry.id = None THEN [entry EXCEPT !.id = uuid] ELSE entry
    IN  IF e.category = None
        THEN [collections |-> cols, ret |-> "AttributeError", entry |-> e]
        ELSE IF ~HasRequiredField(e)
        THEN [collections |-> cols, ret |-> "ValueError", entry |-> e]
        ELSE LET embedding == generate_embedding(to_searchable_text(e))
                 collection_name == TargetName(e)
                 ensured == ensure_collection(cols, collection_name, fault)
                 point == PointStruct(e.id, embedding, to_dict(e))
             IN  IF collection_name \in fault.upsert \/ collection_name \notin DOMAIN ensured
                 THEN [collections |-> ensured, ret |-> "UnexpectedResponse", entry |-> e]
                 ELSE [collections |-> upsert(ensured, collection_name, <<point>>),
                       ret |-> "ok", entry |-> e]

add_entry(entry, uuid, fault) ==
    /\ collections' = add_entry_result(collections, entry, uuid, fault).collections
    /\ UNCHANGED <<crawlVars, chunkVars, runVars, writerVars>>

AddEntry ==
    \E entry \in Entries, fault \in Faults :
        \E uuid \in (IF entry.id = None THEN Ids \ UsedIds ELSE {None}) :
            add_entry(entry, uuid, fault)

\* What a read or a delete meets at the backend: the order in which
\* get_collections lists the collections, whether that listing raises, the
\* collections whose search / retrieve / delete / delete_collection call
\* raises, and the order Qdrant gives to points of equal score.
Orderings ==
    {[order |-> <<get_common_collection_name(DATABASE), get_tenant_collection_name(<<"acme">>),
                  get_common_collection_name(KUBERNETES), get_tenant_collection_name(<<"globex">>)>>,
      tie |-> <<<<"e1">>, <<"e2">>>>],
     [order |-> <<get_tenant_collection_name(<<"globex">>), get_common_collection_name(KUBERNETES),
                  get_tenant_collection_name(<<"acme">>), get_common_collection_name(DATABASE)>>,
      tie |-> <<<<"e2">>, <<"e1">>>>]}

Downs == SUBSET CommonNames \cup {{n} : n \in TenantNames}

Envs ==
    {[order |-> o.order, tie |-> o.tie, listing_down |-> l, down |-> d] :
        o \in Orderings, l \in BOOLEAN, d \in Downs}

\* The backends that differ in what a delete does to the store.
DeleteEnvs ==
    {env \in Envs : env.order = (CHOOSE o \in Orderings : TRUE).order /\ ~env.listing_down}

\* The backend answering every call, in either listing order.
HealthyEnvs == {env \in Envs : ~env.listing_down /\ env.down = {}}

\* client.get_collections().collections, as names
get_collections(cols, env) == SelectSeq(env.order, LAMBDA n : n \in DOMAIN cols)

RECURSIVE SeqMap(_, _)
\* [Op(x) for x in seq]
SeqMap(Op(_), seq) ==
    IF seq = <<>> THEN <<>> ELSE <<Op(Head(seq))>> \o SeqMap(Op, Tail(seq))

CategoryList == <<DATABASE, KUBERNETES>>

\* VectorStore._get_existing_common_collection_names
get_existing_common_collection_names(cols, env) ==
    IF env.listing_down THEN <<>>
    ELSE SelectSeq(get_collections(cols, env),
                   LAMBDA n : StartsWith(n, COMMON_COLLECTION_PREFIX))

\* The shared-tier candidates of search, get_entry, delete_entry and
\* count_entries: the existing shared collections, else every defined one.
common_candidates(cols, env) ==
    LET existing == get_existing_common_collection_names(cols, env)
    IN  IF existing # <<>> THEN existing
        ELSE SeqMap(get_common_collection_name, CategoryList)

\* A client call on one collection raises: the collection is missing or the
\* backend fails.
Raises(cols, name, env) == name \notin DOMAIN cols \/ name \in env.down

Min(a, b) == IF a < b THEN a ELSE b

\* seq[:k]
Take(seq, k) == SubSeq(seq, 1, Min(k, Len(seq)))

RECURSIVE InsertByScore(_, _)
InsertByScore(sorted, r) ==
    IF sorted = <<>> THEN <<r>>
    ELSE IF Head(sorted).score >= r.score
         THEN <<Head(sorted)>> \o InsertByScore(Tail(sorted), r)
         ELSE <<r>> \o sorted

\* A merge that forgets to sort.
SortByScore_unsorted(seq) == seq

RECURSIVE SortByScore(_)
\* list.sort(key=score, reverse=True): stable, highest score first
SortByScore(seq) ==
    IF seq = <<>> THEN <<>>
    ELSE InsertByScore(SortByScore(SubSeq(seq, 1, Len(seq) - 1)), seq[Len(seq)])

\* client.search on an existing collection: the `limit` best points of score
\* at least score_threshold, best first.
client_search(cols, name, query_vector, limit, score_threshold, env) ==
    LET ids == SelectSeq(env.tie, LAMBDA i : i \in DOMAIN cols[name])
        scored == SeqMap(LAMBDA i : [id |-> i,
                                     score |-> Cosine(query_vector, cols[name][i].vector),
                                     payload |-> cols[name][i].payload], ids)
        hits == SelectSeq(scored, LAMBDA h : h.score >= score_threshold)
    IN  Take(SortByScore(hits), limit)

RECURSIVE search_collections_until_failure(_, _, _, _, _, _)
\* A loop that a failing collection ends: the collections after it are not
\* searched.
search_collections_until_failure(cols, collection_names, query_vector, top_k, min_score, env) ==
    IF collection_names = <<>> THEN <<>>
    ELSE LET name == Head(collection_names)
         IN  IF Raises(cols, name, env) THEN <<>>
             ELSE SeqMap(LAMBDA h : [entry |-> from_dict(h.payload),
                                     score |-> h.score,
                                     entry_id |-> h.id],
                         client_search(cols, name, query_vector, top_k, min_score, env))
                  \o search_collections_until_failure(cols, Tail(collection_names),
                                                      query_vector, top_k, min_score, env)

RECURSIVE search_collections(_, _, _, _, _, _)
\* VectorStore.search lines 230-249: the results of every collection that
\* answers, appended in the order of collection_names.
search_collections(cols, collection_names, query_vector, top_k, min_score, env) ==
    IF collection_names = <<>> THEN <<>>
    ELSE LET name == Head(collection_names)
             rest == search_collections(cols, Tail(collection_names), query_vector,
                                        top_k, min_score, env)
         IN  IF Raises(cols, name, env) THEN rest
             ELSE SeqMap(LAMBDA h : [entry |-> from_dict(h.payload),
                                     score |-> h.score,
                                     entry_id |-> h.id],
                         client_search(cols, name, query_vector, top_k, min_score, env))
                  \o rest

\* A tenant search that names a partition also when it has no tenant_id.
search_collection_names_unguarded(cols, kb_type, tenant_id, category, env) ==
    IF kb_type = TENANT THEN <<get_tenant_collection_name(tenant_id)>>
    ELSE IF category # None THEN <<get_common_collection_name(category)>>
    ELSE common_candidates(cols, env)

\* VectorStore.search lines 214-227: the collections client.search is called
\* on; none when search returns at line 216.
search_collection_names(cols, kb_type, tenant_id, category, env) ==
    IF kb_type = TENANT
    THEN IF tenant_id = None THEN <<>>
         ELSE <<get_tenant_collection_name(tenant_id)>>
    ELSE IF category # None THEN <<get_common_collection_name(category)>>
    ELSE common_candidates(cols, env)

\* VectorStore.search
search(cols, query, kb_type, tenant_id, top_k, min_score, category, env) ==
    LET query_embedding == generate_embedding(query)
        collection_names == search_collection_names(cols, kb_type, tenant_id, category, env)
    IN  IF kb_type = TENANT /\ tenant_id = None THEN <<>>
        ELSE Take(SortByScore(search_collections(cols, collection_names, query_embedding,
                                                 top_k, min_score, env)), top_k)

RECURSIVE retrieve_first(_, _, _, _)
\* VectorStore.get_entry lines 269-281: the first candidate that answers with
\* the point; <<>> stands for a returned None, <<entry>> for a returned entry.
retrieve_first(cols, collection_names, entry_id, env) ==
    IF collection_names = <<>> THEN <<>>
    ELSE LET name == Head(collection_names)
         IN  IF ~Raises(cols, name, env) /\ entry_id \in DOMAIN cols[name]
             THEN <<from_dict(cols[name][entry_id].payload)>>
             ELSE retrieve_first(cols, Tail(collection_names), entry_id, env)

\* VectorStore.get_entry
get_entry(cols, entry_id, kb_type, tenant_id, env) ==
    IF kb_type = TENANT
    THEN IF tenant_id = None THEN <<>>
         ELSE retrieve_first(cols, <<get_tenant_collection_name(tenant_id)>>, entry_id, env)
    ELSE retrieve_first(cols, common_candidates(cols, env), entry_id, env)

\* KnowledgeBaseService.search_common_kb
search_common_kb(cols, query, top_k, min_score, category, env) ==
    search(cols, query, COMMON, None, top_k, min_score, category, env)

\* KnowledgeBaseService.search_tenant_kb
search_tenant_kb(cols, tenant_id, query, top_k, min_score, env) ==
    search(cols, query, TENANT, tenant_id, top_k, min_score, None, env)

RECURSIVE search_categories(_, _, _, _, _, _)
\* search_both lines 142-151: the results of one search per category, in the
\* order of common_categories
search_categories(cols, query, top_k, min_score, categories, env) ==
    IF categories = <<>> THEN <<>>
    ELSE search_common_kb(cols, query, top_k, min_score, Head(categories), env)
         \o search_categories(cols, query, top_k, min_score, Tail(categories), env)

\* A result replaces the kept one whatever its score.
replaces_kept_always(result, kept) == TRUE

\* search_both line 158: result["score"] > deduped[entry_id]["score"]
replaces_kept(result, kept) == result.score > kept.score

RECURSIVE dedupe(_, _)
\* search_both lines 153-159: deduped, as its values in insertion order
dedupe(results, deduped) ==
    IF results = <<>> THEN deduped
    ELSE LET result == Head(results)
             at == {k \in 1..Len(deduped) : deduped[k].entry_id = result.entry_id}
             next == IF at = {} THEN Append(deduped, result)
                     ELSE LET k == CHOOSE k \in at : TRUE
                          IN  IF replaces_kept(result, deduped[k])
                              THEN [deduped EXCEPT ![k] = result]
                              ELSE deduped
         IN  dedupe(Tail(results), next)

\* KnowledgeBaseService.search_both
search_both(cols, query, tenant_id, common_top_k, tenant_top_k, min_score, common_categories, env) ==
    [common |->
        IF common_categories # None /\ common_categories # <<>>
        THEN Take(SortByScore(dedupe(search_categories(cols, query, common_top_k,
                                                       min_score, common_categories,
                                                       env), <<>>)),
                  common_top_k)
        ELSE search_common_kb(cols, query, common_top_k, min_score, None, env),
     tenant |->
        IF Truthy(tenant_id)
        THEN search_tenant_kb(cols, tenant_id, query, tenant_top_k, min_score, env)
        ELSE <<>>]

\* client.delete of one point id in an existing collection
delete_point(cols, name, entry_id) ==
    [cols EXCEPT ![name] = [i \in DOMAIN cols[name] \ {entry_id} |-> cols[name][i]]]

RECURSIVE delete_from_until_failure(_, _, _, _)
\* A loop that the first failing collection ends.
delete_from_until_failure(cols, collection_names, entry_id, env) ==
    IF collection_names = <<>> THEN [collections |-> cols, success |-> FALSE]
    ELSE LET name == Head(collection_names)
         IN  IF Raises(cols, name, env)
             THEN [collections |-> cols, success |-> FALSE]
             ELSE LET r == delete_from_until_failure(delete_point(cols, name, entry_id),
                                                     Tail(collection_names), entry_id, env)
                  IN  [collections |-> r.collections, success |-> TRUE]

RECURSIVE delete_from(_, _, _, _)
\* VectorStore.delete_entry lines 297-307
delete_from(cols, collection_names, entry_id, env) ==
    IF collection_names = <<>> THEN [collections |-> cols, success |-> FALSE]
    ELSE LET name == Head(collection_names)
         IN  IF Raises(cols, name, env)
             THEN delete_from(cols, Tail(collection_names), entry_id, env)
             ELSE LET r == delete_from(delete_point(cols, name, entry_id),
                                       Tail(collection_names), entry_id, env)
                  IN  [collections |-> r.collections, success |-> TRUE]

\* VectorStore.delete_entry on the store `cols`
delete_entry_result(cols, entry_id, kb_type, tenant_id, env) ==
    IF kb_type = TENANT
    THEN IF tenant_id = None THEN [collections |-> cols, success |-> FALSE]
         ELSE delete_from(cols, <<get_tenant_collection_name(tenant_id)>>, entry_id, env)
    ELSE delete_from(cols, common_candidates(cols, env), entry_id, env)

delete_entry(entry_id, kb_type, tenant_id, env) ==
    /\ collections' = delete_entry_result(collections, entry_id, kb_type, tenant_id, env).collections
    /\ UNCHANGED <<crawlVars, chunkVars, runVars, writerVars>>

RECURSIVE SumCounts(_, _, _)
\* total += info.points_count over the collections that answer
SumCounts(cols, collection_names, env) ==
    IF collection_names = <<>> THEN 0
    ELSE LET name == Head(collection_names)
         IN  (IF Raises(cols, name, env) THEN 0 ELSE Cardinality(DOMAIN cols[name]))
             + SumCounts(cols, Tail(collection_names), env)

\* VectorStore.count_entries (with tenant_id None the listing is outside any
\* try: the call is modelled where the listing answers)
count_entries(cols, kb_type, tenant_id, env) ==
    IF kb_type = TENANT
    THEN IF tenant_id = None
         THEN SumCounts(cols, SelectSeq(get_collections(cols, env),
                                        LAMBDA n : StartsWith(n, TENANT_COLLECTION_PREFIX)), env)
         ELSE SumCounts(cols, <<get_tenant_collection_name(tenant_id)>>, env)
    ELSE SumCounts(cols, common_candidates(cols, env), env)

\* VectorStore.list_tenant_collections
list_tenant_collections(cols, env) ==
    SeqMap(LAMBDA n : SubSeq(n, Len(TENANT_COLLECTION_PREFIX) + 1, Len(n)),
           SelectSeq(get_collections(cols, env),
                     LAMBDA n : StartsWith(n, TENANT_COLLECTION_PREFIX)))

\* A delete that removes the tenant's points and keeps the collection.
delete_tenant_collection_result_emptying(cols, tenant_id, env) ==
    LET collection_name == get_tenant_collection_name(tenant_id)
    IN  IF collection_name \in env.down
        THEN [collections |-> cols, success |-> FALSE]
        ELSE [collections |-> [n \in DOMAIN cols |->
                                  IF n = collection_name THEN NoPoints ELSE cols[n]],
              success |-> TRUE]

\* VectorStore.delete_tenant_collection on the store `cols`:
\* client.delete_collection answers without raising also for a collection that
\* does not exist.
delete_tenant_collection_result(cols, tenant_id, env) ==
    LET collection_name == get_tenant_collection_name(tenant_id)
    IN  IF collection_name \in env.down
        THEN [collections |-> cols, success |-> FALSE]
        ELSE [collections |-> [n \in DOMAIN cols \ {collection_name} |-> cols[n]],
              success |-> TRUE]

delete_tenant_collection(tenant_id, env) ==
    /\ collections' = delete_tenant_collection_result(collections, tenant_id, env).collections
    /\ UNCHANGED <<crawlVars, chunkVars, runVars, writerVars>>

\* entries_by_collection[collection_name].append(entry), a dict in insertion
\* order, as a sequence of [name, entries].
RECURSIVE append_to_group(_, _, _)
append_to_group(groups, name, e) ==
    IF groups = <<>> THEN <<[name |-> name, entries |-> <<e>>]>>
    ELSE IF Head(groups).name = name
         THEN <<[name |-> name, entries |-> Append(Head(groups).entries, e)]>> \o Tail(groups)
         ELSE <<Head(groups)>> \o append_to_group(Tail(groups), name, e)

RECURSIVE group_entries(_, _, _, _, _)
\* VectorStore.add_entries lines 139-158
group_entries(cols, entries, fresh, groups, fault) ==
    IF entries = <<>> THEN [collections |-> cols, ret |-> "ok", groups |-> groups]
    ELSE LET entry == Head(entries)
             e == IF entry.id = None THEN [entry EXCEPT !.id = Head(fresh)] ELSE entry
             rest_fresh == IF entry.id = None THEN Tail(fresh) ELSE fresh
         IN  IF ~HasRequiredField(e)
             THEN [collections |-> cols, ret |-> "ValueError", groups |-> groups]
             ELSE group_entries(ensure_collection(cols, TargetName(e), fault),
                                Tail(entries), rest_fresh,
                                append_to_group(groups, TargetName(e), e), fault)

RECURSIVE upsert_groups(_, _, _, _)
\* VectorStore.add_entries lines 161-185
upsert_groups(cols, groups, entry_ids, fault) ==
    IF groups = <<>> THEN [collections |-> cols, ret |-> "ok", ids |-> entry_ids]
    ELSE LET g == Head(groups)
         IN  IF \E i \in 1..Len(g.entries) : g.entries[i].category = None
             THEN [collections |-> cols, ret |-> "AttributeError", ids |-> entry_ids]
             ELSE IF g.name \in fault.upsert \/ g.name \notin DOMAIN cols
             THEN [collections |-> cols, ret |-> "UnexpectedResponse", ids |-> entry_ids]
             ELSE upsert_groups(
                      upsert(cols, g.name,
                             SeqMap(LAMBDA e : PointStruct(e.id,
                                        generate_embedding(to_searchable_text(e)),
                                        to_dict(e)), g.entries)),
                      Tail(groups),
                      entry_ids \o SeqMap(LAMBDA e : e.id, g.entries),
                      fault)

\* VectorStore.add_entries on the store `cols`
add_entries_result(cols, entries, fresh, fault) ==
    IF entries = <<>> THEN [collections |-> cols, ret |-> "ok", ids |-> <<>>]
    ELSE LET grouped == group_entries(cols, entries, fresh, <<>>, fault)
         IN  IF grouped.ret # "ok"
             THEN [collections |-> grouped.collections, ret |-> grouped.ret, ids |-> <<>>]
             ELSE upsert_groups(grouped.collections, grouped.groups, <<>>, fault)

add_entries(entries, fresh, fault) ==
    /\ collections' = add_entries_result(collections, entries, fresh, fault).collections
    /\ UNCHANGED <<crawlVars, chunkVars, runVars, writerVars>>

\* The longest batch add_entries is exercised with.
MaxBatch == 2

BatchEntries ==
    {Entry(<<"e1">>, None, COMMON, <<"A">>, DATABASE, None),
     Entry(<<"e1">>, <<"acme">>, TENANT, <<"B">>, DATABASE, NaiveTime),
     Entry(None, <<"globex">>, TENANT, <<"B">>, DATABASE, NaiveTime),
     Entry(<<"e1">>, None, TENANT, <<"B">>, DATABASE, NaiveTime)}

Batches == UNION {[1..n -> BatchEntries] : n \in 0..MaxBatch}

\* The faults a batch meets: none, or every upsert raising.
BatchFaults == {fault \in Faults : fault.ensure = {}}

\* The number of entries of a batch that get a generated id.
RECURSIVE CountNoId(_)
CountNoId(entries) ==
    IF entries = <<>> THEN 0
    ELSE (IF Head(entries).id = None THEN 1 ELSE 0) + CountNoId(Tail(entries))

\* The values uuid4 may give to a batch: distinct ids stored nowhere and given
\* to no entry of the batch.
FreshSeqs(entries) ==
    LET given == {entries[i].id : i \in 1..Len(entries)}
        free == Ids \ (UsedIds \cup given)
    IN  {f \in [1..CountNoId(entries) -> free] :
            \A i, j \in 1..CountNoId(entries) : i # j => f[i] # f[j]}

AddEntries ==
    \E entries \in Batches, fault \in BatchFaults :
        \E fresh \in FreshSeqs(entries) :
            add_entries(entries, fresh, fault)

DeleteEntry ==
    \E entry_id \in Ids, kb_type \in KnowledgeBaseType, env \in DeleteEnvs :
        \E tenant_id \in (IF kb_type = TENANT THEN TenantIds \cup {None} ELSE {None}) :
            delete_entry(entry_id, kb_type, tenant_id, env)

DeleteTenantCollection ==
    \E tenant_id \in TenantIds, env \in DeleteEnvs :
        delete_tenant_collection(tenant_id, env)

\* VectorStore.__init__ on an empty Qdrant server: a collection per category,
\* except those whose _ensure_collection failed and was swallowed.
\* No crawl is running.
CrawlIdle ==
    /\ args = None
    /\ pc = "idle"
    /\ queue = <<>>
    /\ visited = {}
    /\ pages = <<>>
    /\ errors = <<>>
    /\ current = None
    /\ fetched = <<>>

\* No add_entry calls run side by side.
WritersIdle == writers = <<>>

\* No ingestion request is being served.
RunIdle ==
    /\ req = None
    /\ run_pc = "idle"
    /\ stats = None
    /\ page_index = 0
    /\ page_chunks = <<>>
    /\ chunk_index = 0
    /\ chunked = <<>>
    /\ attempts = <<>>

\* chunk_text is not running.
ChunkIdle ==
    /\ caller = None
    /\ text_in = None
    /\ chunk_size = 0
    /\ overlap = 0
    /\ words = <<>>
    /\ start = 0
    /\ chunks = <<>>
    /\ chunk_pc = "idle"

InitStore ==
    /\ \E created \in SUBSET CommonNames : collections = [n \in created |-> NoPoints]
    /\ CrawlIdle
    /\ ChunkIdle
    /\ RunIdle
    /\ WritersIdle

NextStore == AddEntry \/ AddEntries \/ DeleteEntry \/ DeleteTenantCollection

SpecStore == InitStore /\ [][NextStore]_vars

(***************************************************************************)
(* Partition naming.  The tokens "kb_", "common_", "tenant_", the category *)
(* values and "acme" are substrings none of which is a prefix of another,  *)
(* so two sequences of them are equal exactly if the strings they spell    *)
(* are equal.                                                              *)
(***************************************************************************)
\* The tenant ids partition names are derived from: a plain one, ones that
\* equal a category value, and ones that start with or contain a prefix.
NamingTenantIds ==
    {<<"acme">>,
     <<"database">>,
     <<"kubernetes">>,
     <<"common_", "database">>,
     <<"kb_", "common_", "database">>,
     <<"kb_", "tenant_", "acme">>,
     <<"tenant_">>}

\* A backend that answers every call and lists the collections in one
\* fixed order.
NamingEnv ==
    [order |-> <<get_tenant_collection_name(<<"database">>),
                 get_common_collection_name(DATABASE),
                 get_tenant_collection_name(<<"kb_", "common_", "database">>),
                 get_common_collection_name(KUBERNETES),
                 get_tenant_collection_name(<<"acme">>),
                 get_tenant_collection_name(<<"common_", "database">>),
                 get_tenant_collection_name(<<"kb_", "tenant_", "acme">>),
                 get_tenant_collection_name(<<"kubernetes">>),
                 get_tenant_collection_name(<<"tenant_">>)>>,
     tie |-> <<<<"e1">>, <<"e2">>>>,
     listing_down |-> FALSE,
     down |-> {}]

\* add_entry of a tenant entry, for each tenant id.
AddTenantEntry ==
    \E t \in NamingTenantIds :
        add_entry(Entry(<<"e1">>, t, TENANT, <<"A">>, DATABASE, None), None, NoFault)

\* add_entry of a shared entry, for each category.
AddSharedEntry ==
    \E category \in ITIssueCategory :
        add_entry(Entry(<<"e1">>, None, COMMON, <<"A">>, category, None), None, NoFault)

\* delete_tenant_collection, for each tenant id.
DropTenant ==
    \E t \in NamingTenantIds : delete_tenant_collection(t, NamingEnv)

InitNaming ==
    /\ collections = [n \in CommonNames |-> NoPoints]
    /\ CrawlIdle
    /\ ChunkIdle
    /\ RunIdle
    /\ WritersIdle

NextNaming == AddTenantEntry \/ AddSharedEntry \/ DropTenant

SpecNaming == InitNaming /\ [][NextNaming]_vars

(***************************************************************************)
(* add_entry calls that run side by side, in two workers or two services   *)
(* on one Qdrant server.  A call is followed from one client call to the   *)
(* next: get_collections, create_collection, upsert.                       *)
(***************************************************************************)
\* The entries written side by side: the ones with an id.
RaceEntries == {e \in Entries : e.id # None}

\* The calls that run side by side.
Writers == 1..2

\* A create_collection that resets a collection that exists.
client_create_collection_resetting(cols, name) ==
    [collections |-> [n \in DOMAIN cols \cup {name} |->
                         IF n = name THEN NoPoints ELSE cols[n]],
     raised |-> FALSE]

\* client.create_collection as the server answers it: a collection that
\* exists is left as it is and the call raises.
client_create_collection(cols, name) ==
    IF name \in DOMAIN cols THEN [collections |-> cols, raised |-> TRUE]
    ELSE [collections |-> create_collection(cols, name), raised |-> FALSE]

\* add_entry lines 96-113 and _ensure_collection lines 57-58 of call w: the
\* entry is validated and client.get_collections() answers.
observe(w) ==
    LET e == writers[w].entry
    IN  /\ writers[w].pc = "start"
        /\ writers' = [writers EXCEPT ![w] =
               IF e.category = None
               THEN [@ EXCEPT !.pc = "done", !.ret = "AttributeError"]
               ELSE IF ~HasRequiredField(e)
               THEN [@ EXCEPT !.pc = "done", !.ret = "ValueError"]
               ELSE [@ EXCEPT !.pc = "listed", !.names = DOMAIN collections]]
        /\ UNCHANGED <<collections, crawlVars, chunkVars, runVars>>

\* _ensure_collection lines 60-72 of call w: the collection is created if the
\* listing did not hold it; what create_collection raises is swallowed.
create(w) ==
    LET collection_name == TargetName(writers[w].entry)
    IN  /\ writers[w].pc = "listed"
        /\ collections' = IF collection_name \notin writers[w].names
                          THEN client_create_collection(collections, collection_name).collections
                          ELSE collections
        /\ writers' = [writers EXCEPT ![w].pc = "ensured"]
        /\ UNCHANGED <<crawlVars, chunkVars, runVars>>

\* add_entry lines 116-130 of call w: client.upsert, and the return.
write(w) ==
    LET e == writers[w].entry
        collection_name == TargetName(e)
        point == PointStruct(e.id, generate_embedding(to_searchable_text(e)), to_dict(e))
    IN  /\ writers[w].pc = "ensured"
        /\ IF collection_name \notin DOMAIN collections
           THEN /\ writers' = [writers EXCEPT ![w] =
                                  [@ EXCEPT !.pc = "done", !.ret = "UnexpectedResponse"]]
                /\ UNCHANGED collections
           ELSE /\ writers' = [writers EXCEPT ![w] = [@ EXCEPT !.pc = "done", !.ret = "ok"]]
                /\ collections' = upsert(collections, collection_name, <<point>>)
        /\ UNCHANGED <<crawlVars, chunkVars, runVars>>

Observe == \E w \in Writers : observe(w)

Create == \E w \in Writers : create(w)

Write == \E w \in Writers : write(w)

InitRace ==
    /\ \E created \in SUBSET CommonNames : collections = [n \in created |-> NoPoints]
    /\ writers \in [Writers -> [pc : {"start"}, entry : RaceEntries, names : {{}},
                                 ret : {None}]]
    /\ CrawlIdle
    /\ ChunkIdle
    /\ RunIdle

NextRace == Observe \/ Create \/ Write

SpecRace == InitRace /\ [][NextRace]_vars

(***************************************************************************)
(* data-foundry/app/services/crawler.py                                    *)
(*                                                                         *)
(* A URL is modelled as urlparse sees it: [host, path, fragment], host a   *)
(* sequence of labels (the netloc split at its dots), fragment "" when the *)
(* URL has none.  Two URLs are the same string exactly if the records are  *)
(* equal.                                                                  *)
(***************************************************************************)
Url(host, path, fragment) == [host |-> host, path |-> path, fragment |-> fragment]

\* absolute.split("#")[0]
StripFragment(url) == [url EXCEPT !.fragment = ""]

\* str.lower on one label
LowerLabel(label) == IF label = "Example" THEN "example" ELSE label

\* str.lower on a netloc
Lower(host) == [i \in 1..Len(host) |-> LowerLabel(host[i])]

\* hostname.endswith("." + domain)
EndsWithDot(hostname, domain) ==
    /\ Len(hostname) > Len(domain)
    /\ SubSeq(hostname, Len(hostname) - Len(domain) + 1, Len(hostname)) = domain

\* WebCrawler._is_allowed
is_allowed(url, allowed_domains, include_subdomains) ==
    LET hostname == Lower(url.host)
    IN  IF url.host = <<>> THEN FALSE
        ELSE IF include_subdomains
             THEN \E domain \in allowed_domains :
                      hostname = domain \/ EndsWithDot(hostname, domain)
             ELSE hostname \in allowed_domains

\* An anchor's href: kind "link" with the URL urljoin(base_url, href) gives,
\* a "#...", "mailto:" or "javascript:" href, or kind "invalid", an href such
\* as "http://[" on which urljoin raises ValueError.
Href(kind, target) == [kind |-> kind, target |-> target]

\* WebCrawler._extract_links
RECURSIVE extract_links(_)
extract_links(anchors) ==
    IF anchors = <<>> THEN <<>>
    ELSE IF Head(anchors).kind # "link" THEN extract_links(Tail(anchors))
    ELSE <<StripFragment(Head(anchors).target)>> \o extract_links(Tail(anchors))

\* The hosts of the sites the crawler is run on.
ExampleCom == <<"example", "com">>
DocsExampleCom == <<"docs", "example", "com">>
EvilCom == <<"evil", "com">>

\* normalized_allowed with an unset allowed_domains read as "every host"
normalized_allowed_wildcard(a) ==
    IF a.allowed_domains = None \/ a.allowed_domains = <<>>
    THEN {ExampleCom, DocsExampleCom, EvilCom}
    ELSE {a.allowed_domains[i] : i \in 1..Len(a.allowed_domains)}

\* WebCrawler._extract_links raises: urljoin (line 96) meets an href it
\* rejects.
extract_links_raises(anchors) ==
    \E i \in 1..Len(anchors) : anchors[i].kind = "invalid"

\* A fetch counts as failed only when client.get raises.
fetch_failed_on_raise_only(response) == response.kind = "raises"

\* crawl lines 58-66: client.get raises, or the status code is >= 400
fetch_failed(response) == response.kind \in {"raises", "status>=400"}

\* An asset filter that discards nothing.
discarded_never(response) == FALSE

\* crawl lines 68-70: skip_assets is set and the content type holds neither
\* "html" nor "xml".
discarded(response) == args.skip_assets /\ ~response.html

\* crawl lines 41-44: set(allowed_domains or [base_domain])
normalized_allowed(a) ==
    IF a.allowed_domains = None \/ a.allowed_domains = <<>>
    THEN {a.root_url.host}
    ELSE {a.allowed_domains[i] : i \in 1..Len(a.allowed_domains)}

\* crawl lines 78-81: the links of a page that join the frontier
RECURSIVE enqueue_links(_, _, _, _)
enqueue_links(q, links, depth, seen) ==
    IF links = <<>> THEN q
    ELSE LET link == Head(links)
             q1 == IF link \notin seen
                      /\ is_allowed(link, normalized_allowed(args), args.include_subdomains)
                   THEN Append(q, <<link, depth + 1>>)
                   ELSE q
         IN  enqueue_links(q1, Tail(links), depth, seen)

\* A frontier taken from its right end: deque.pop().
pop_right(q) == [item |-> q[Len(q)], rest |-> SubSeq(q, 1, Len(q) - 1)]

\* A popleft that leaves the entry on the queue.
popleft_keeps(q) == [item |-> Head(q), rest |-> q]

\* crawl line 50: queue.popleft()
popleft(q) == [item |-> Head(q), rest |-> Tail(q)]

\* A page limit that lets one page more through.
page_limit_off_by_one(n) == n > args.max_pages

\* crawl line 83: len(pages) >= max_pages; line 49 tests its negation
page_limit_reached(n) == n >= args.max_pages

\* A depth test that also expands the pages at max_depth.
may_expand_at_limit(depth) == depth <= args.max_depth

\* crawl line 78: depth < max_depth
may_expand(depth) == depth < args.max_depth

\* crawl lines 78-79: the links the crawl reads from a gathered page's html,
\* none from a page at max_depth or when _extract_links raises.
links_read(response, depth) ==
    IF may_expand(depth) /\ ~extract_links_raises(response.anchors)
    THEN extract_links(response.anchors)
    ELSE <<>>

\* The sites the crawler is run on.
RootUrls ==
    {Url(ExampleCom, "/docs", ""), Url(ExampleCom, "/docs", "intro"),
     Url(<<"Example", "com">>, "/docs", "")}

Hrefs ==
    {Href("link", Url(ExampleCom, "/docs", "top")),
     Href("link", Url(DocsExampleCom, "/api", "")),
     Href("link", Url(EvilCom, "/", "")),
     Href("#", None),
     Href("invalid", None)}

\* The most anchors on one page.
MaxLinks == 2

\* The largest max_depth and max_pages crawl is called with.
MaxDepthArg == 2
MaxPagesArg == 3

AnchorLists == UNION {[1..n -> Hrefs] : n \in 0..MaxLinks}

\* What client.get answers: it raises, or returns a status, a content type
\* (html: "html" or "xml" occurs in it) and a body with its anchors.
Responses ==
    {[kind |-> "raises", html |-> FALSE, anchors |-> <<>>],
     [kind |-> "status>=400", html |-> FALSE, anchors |-> <<>>]}
    \cup {[kind |-> "ok", html |-> h, anchors |-> a] : h \in BOOLEAN, a \in AnchorLists}

CrawlArgs ==
    [root_url : RootUrls,
     max_depth : 0..MaxDepthArg,
     max_pages : 1..MaxPagesArg,
     allowed_domains : {None, <<>>, <<EvilCom>>},
     include_subdomains : BOOLEAN,
     skip_assets : BOOLEAN]

\* crawl lines 37-46
InitCrawl ==
    /\ args \in CrawlArgs
    /\ pc = "loop"
    /\ queue = <<<<args.root_url, 0>>>>
    /\ visited = {}
    /\ pages = <<>>
    /\ errors = <<>>
    /\ current = None
    /\ fetched = <<>>
    /\ collections = [n \in {} |-> NoPoints]
    /\ ChunkIdle
    /\ RunIdle
    /\ WritersIdle

\* crawl lines 49-56, the frontier entry is skipped: it was visited, is too
\* deep or is not allowed.
SkipEntry ==
    /\ pc = "loop"
    /\ queue # <<>> /\ ~page_limit_reached(Len(pages))
    /\ LET url == popleft(queue).item[1]
           depth == popleft(queue).item[2]
       IN  /\ \/ url \in visited
              \/ depth > args.max_depth
              \/ ~is_allowed(url, normalized_allowed(args), args.include_subdomains)
           /\ visited' = IF url \in visited \/ depth > args.max_depth
                         THEN visited ELSE visited \cup {url}
    /\ queue' = popleft(queue).rest
    /\ UNCHANGED <<collections, args, pc, pages, errors, current, fetched, chunkVars,
                   runVars, writerVars>>

\* A crawl that takes the next frontier entry without awaiting the fetch it
\* has issued.
StartFetch_without_await ==
    /\ pc \in {"loop", "fetch"}
    /\ queue # <<>> /\ ~page_limit_reached(Len(pages))
    /\ LET url == popleft(queue).item[1]
           depth == popleft(queue).item[2]
       IN  /\ url \notin visited /\ depth <= args.max_depth
           /\ is_allowed(url, normalized_allowed(args), args.include_subdomains)
           /\ visited' = visited \cup {url}
           /\ fetched' = Append(fetched, url)
    /\ current' = popleft(queue).item
    /\ queue' = popleft(queue).rest
    /\ pc' = "fetch"
    /\ UNCHANGED <<collections, args, pages, errors, chunkVars, runVars, writerVars>>

\* crawl lines 49-59, the frontier entry is fetched: the coroutine awaits
\* client.get(url).
StartFetch ==
    /\ pc = "loop"
    /\ queue # <<>> /\ ~page_limit_reached(Len(pages))
    /\ LET url == popleft(queue).item[1]
           depth == popleft(queue).item[2]
       IN  /\ url \notin visited /\ depth <= args.max_depth
           /\ is_allowed(url, normalized_allowed(args), args.include_subdomains)
           /\ visited' = visited \cup {url}
           /\ fetched' = Append(fetched, url)
    /\ current' = popleft(queue).item
    /\ queue' = popleft(queue).rest
    /\ pc' = "fetch"
    /\ UNCHANGED <<collections, args, pages, errors, chunkVars, runVars, writerVars>>

\* crawl lines 60-84: client.get has answered with `response`.
fetch_returns(response) ==
    LET url == current[1]
        depth == current[2]
    IN  /\ pc = "fetch"
        /\ current' = None
        /\ UNCHANGED <<collections, args, visited, fetched, chunkVars, runVars, writerVars>>
        /\ IF fetch_failed(response)
           THEN /\ errors' = Append(errors, [url |-> url, kind |-> response.kind])
                /\ pc' = "loop"
                /\ UNCHANGED <<pages, queue>>
           ELSE IF discarded(response)
           THEN /\ pc' = "loop"
                /\ UNCHANGED <<pages, queue, errors>>
           ELSE /\ pages' = Append(pages, [url |-> url, depth |-> depth,
                                            links |-> links_read(response, depth)])
                /\ IF may_expand(depth) /\ extract_links_raises(response.anchors)
                   THEN /\ pc' = "raised"
                        /\ UNCHANGED queue
                   ELSE /\ queue' = IF may_expand(depth)
                                    THEN enqueue_links(queue,
                                                       extract_links(response.anchors),
                                                       depth, visited)
                                    ELSE queue
                        /\ pc' = IF page_limit_reached(Len(pages'))
                                 THEN "done" ELSE "loop"
                /\ UNCHANGED errors

FetchReturns == \E response \in Responses : fetch_returns(response)

\* crawl lines 49 and 86: the loop condition fails and crawl returns
\* (pages, errors).
Return ==
    /\ pc = "loop"
    /\ ~(queue # <<>> /\ ~page_limit_reached(Len(pages)))
    /\ pc' = "done"
    /\ UNCHANGED <<collections, args, queue, visited, pages, errors, current, fetched,
                   chunkVars, runVars, writerVars>>

NextCrawl == SkipEntry \/ StartFetch \/ FetchReturns \/ Return

SpecCrawl == InitCrawl /\ [][NextCrawl]_vars

\* The crawl coroutine runs on, and every fetch completes.
FairSpecCrawl == SpecCrawl /\ WF_vars(NextCrawl)

(***************************************************************************)
(* data-foundry/app/services/parser.py, models/ingest.py                   *)
(*                                                                         *)
(* A text is the sequence of its words and of the whitespace between them, *)
(* one token each; two words never stand side by side without whitespace.  *)
(***************************************************************************)
Space == <<" ">>

\* str.split()
IsWord(token) == token # Space

split(s) == SelectSeq(s, IsWord)

\* " ".join(ws)
join(ws) ==
    IF ws = <<>> THEN <<>>
    ELSE [i \in 1..(2 * Len(ws) - 1) |->
             IF i % 2 = 1 THEN ws[(i + 1) \div 2] ELSE Space]

\* seq[a:b]
Slice(seq, a, b) == SubSeq(seq, a + 1, Min(b, Len(seq)))

Max(a, b) == IF a >= b THEN a ELSE b

\* IngestRequest.chunk_size: Field(1200, ge=200, le=4000)
ChunkSizeMin == 200
ChunkSizeMax == 4000

\* IngestRequest.chunk_overlap: Field(200, ge=0, le=1000)
ChunkOverlapMax == 1000

\* The requests that pass validation, at the ends of their ranges.
IngestRequests ==
    [chunk_size : {ChunkSizeMin, ChunkSizeMax},
     chunk_overlap : {0, ChunkOverlapMax}]

\* The longest text, the largest chunk_size and the largest overlap
\* chunk_text is called with directly.
MaxWords == 8
MaxChunkSize == 4
MaxOverlap == 3

\* chunk_text is followed for at most this many chunks.
MaxChunks == MaxWords + 2

Letters == <<"a", "b", "c", "d", "e", "f", "g", "h", "i", "j">>

\* "a b c ..." with n words
LetterWords(n) == [i \in 1..n |-> <<Letters[i]>>]

\* n distinct words w1 w2 ...
NumberedWords(n) == [i \in 1..n |-> <<"w", i>>]

Texts ==
    {join(LetterWords(n)) : n \in 0..MaxWords}
    \cup {<<Space>>,
          <<Space, <<"a">>, Space, Space, <<"b">>, Space>>,
          join(<<<<"a">>, <<"a">>, <<"a">>, <<"a">>, <<"a">>>>)}

\* The texts extract_text hands to run_ingest: stripped and not empty.
PageTexts == {join(LetterWords(3)), join(NumberedWords(ChunkSizeMin + 1))}

\* ContentProcessor.chunk_text, lines 20-28: up to the loop
chunk_text(who, t, size, ov) ==
    /\ chunk_pc = "idle"
    /\ caller' = who
    /\ text_in' = t
    /\ chunk_size' = size
    /\ overlap' = ov
    /\ start' = 0
    /\ IF ~Truthy(t)
       THEN /\ words' = <<>>
            /\ chunks' = <<>>
            /\ chunk_pc' = "done"
       ELSE /\ words' = split(t)
            /\ IF Len(words') <= size
               THEN /\ chunks' = <<join(words')>>
                    /\ chunk_pc' = "done"
               ELSE /\ chunks' = <<>>
                    /\ chunk_pc' = "loop"
    /\ UNCHANGED <<storeVars, crawlVars>>

\* A window one word short.
window_end_one_short(first, size, n) == Min(first + size - 1, n)

\* chunk_text line 31: end = min(start + chunk_size, len(words))
window_end(first, size, n) == Min(first + size, n)

\* A window that restarts where the last one ended.
next_start_without_overlap(end, ov) == end

\* A window that steps back by twice the overlap.
next_start_overlap_twice(end, ov) == Max(end - 2 * ov, 0)

\* chunk_text line 36: start = max(end - overlap, 0)
next_start(end, ov) == Max(end - ov, 0)

\* ContentProcessor.chunk_text, lines 29-36: one turn of the loop
ChunkStep ==
    /\ chunk_pc = "loop"
    /\ Len(chunks) < MaxChunks
    /\ IF ~(start < Len(words))
       THEN /\ chunk_pc' = "done"
            /\ UNCHANGED <<start, chunks>>
       ELSE LET end == window_end(start, chunk_size, Len(words))
            IN  /\ chunks' = Append(chunks, join(Slice(words, start, end)))
                /\ IF end = Len(words)
                   THEN /\ chunk_pc' = "done"
                        /\ UNCHANGED start
                   ELSE /\ start' = next_start(end, overlap)
                        /\ chunk_pc' = "loop"
    /\ UNCHANGED <<caller, text_in, chunk_size, overlap, words>>
    /\ UNCHANGED <<storeVars, crawlVars, runVars, writerVars>>

\* DataFoundryService.run_ingest, line 50: the page's text is chunked with
\* the request's chunk_size and chunk_overlap.
RunIngest ==
    \E r \in IngestRequests, t \in PageTexts :
        /\ chunk_text(<<"run_ingest">>, t, r.chunk_size, r.chunk_overlap)
        /\ UNCHANGED <<runVars, writerVars>>

\* chunk_text called with arguments of the caller's choice.
DirectCall ==
    \E t \in Texts, size \in 1..MaxChunkSize, ov \in 0..MaxOverlap :
        /\ chunk_text(<<"direct">>, t, size, ov)
        /\ UNCHANGED <<runVars, writerVars>>

InitIngest ==
    /\ collections = [n \in {} |-> NoPoints]
    /\ CrawlIdle
    /\ ChunkIdle
    /\ RunIdle
    /\ WritersIdle

NextIngest == RunIngest \/ DirectCall \/ ChunkStep

SpecIngest == InitIngest /\ [][NextIngest]_vars

\* The interpreter runs the loop of a call that has not returned.
FairSpecIngest == SpecIngest /\ WF_vars(ChunkStep)

(***************************************************************************)
(* data-foundry/app/routers/ingest.py, services/ingest.py: one ingestion   *)
(* request from its receipt to the return of run_ingest.  The crawl and    *)
(* chunk_text run as modelled above; the store is the VectorStore above.   *)
(***************************************************************************)
\* str(n)
Decimal == <<"1", "2", "3", "4", "5", "6", "7", "8", "9", "10", "11", "12">>

\* The requests that reach ingest_documents: the tier with a tenant_id that
\* is absent, empty or given, a chunk_overlap below and above chunk_size, and
\* a crawl of at most two pages, one link deep.
RunRequests ==
    [root_url : {Url(ExampleCom, "/docs", "")},
     category : {DATABASE},
     kb_type : KnowledgeBaseType,
     tenant_id : {None, <<>>, <<"acme">>},
     max_depth : {1},
     max_pages : {2},
     allowed_domains : {None},
     include_subdomains : {TRUE},
     skip_assets : {TRUE},
     chunk_size : {ChunkSizeMin},
     chunk_overlap : {0, ChunkOverlapMax}]

\* A test that lets the empty tenant_id pass.
tenant_id_missing_if_none(r) == r.kb_type = TENANT /\ r.tenant_id = None

\* ingest_documents line 13
tenant_id_missing(r) == r.kb_type = TENANT /\ ~Truthy(r.tenant_id)

\* IngestStats()
IngestStats ==
    [pages_crawled |-> 0, pages_skipped |-> 0, chunks_created |-> 0,
     entries_ingested |-> 0, errors |-> <<>>]

\* WebCrawler.crawl lines 37-46, as a call with the arguments `a`
crawl(a) ==
    /\ pc = "idle"
    /\ args' = a
    /\ pc' = "loop"
    /\ queue' = <<<<a.root_url, 0>>>>
    /\ visited' = {}
    /\ pages' = <<>>
    /\ errors' = <<>>
    /\ current' = None
    /\ fetched' = <<>>

\* ingest_documents lines 13-15 and run_ingest lines 33-41: the request is
\* rejected with status 400, or run_ingest starts and awaits the crawl.
IngestDocuments ==
    /\ run_pc = "received"
    /\ IF tenant_id_missing(req)
       THEN /\ run_pc' = "rejected"
            /\ UNCHANGED <<crawlVars, stats>>
       ELSE /\ run_pc' = "crawl"
            /\ stats' = IngestStats
            /\ crawl([root_url |-> req.root_url,
                      max_depth |-> req.max_depth,
                      max_pages |-> req.max_pages,
                      allowed_domains |-> req.allowed_domains,
                      include_subdomains |-> req.include_subdomains,
                      skip_assets |-> req.skip_assets])
    /\ UNCHANGED <<storeVars, chunkVars, req, page_index, page_chunks, chunk_index,
                   chunked, attempts>>
    /\ UNCHANGED writerVars

\* run_ingest lines 34-43: crawl has returned (pages, crawl_errors).
CrawlReturned ==
    /\ run_pc = "crawl"
    /\ pc = "done"
    /\ stats' = [stats EXCEPT !.pages_crawled = Len(pages), !.errors = @ \o errors]
    /\ page_index' = 1
    /\ run_pc' = "pages"
    /\ UNCHANGED <<storeVars, crawlVars, chunkVars, req, page_chunks, chunk_index,
                   chunked, attempts>>
    /\ UNCHANGED writerVars

\* run_ingest line 34: crawl has raised; nothing catches the exception.
CrawlRaised ==
    /\ run_pc = "crawl"
    /\ pc = "raised"
    /\ run_pc' = "raised"
    /\ UNCHANGED <<storeVars, crawlVars, chunkVars, req, stats, page_index, page_chunks,
                   chunk_index, chunked, attempts>>
    /\ UNCHANGED writerVars

\* run_ingest lines 45-49: extract_text gives no text, the page is skipped.
SkipPage ==
    /\ run_pc = "pages"
    /\ page_index <= Len(pages)
    /\ stats' = [stats EXCEPT !.pages_skipped = @ + 1]
    /\ page_index' = page_index + 1
    /\ UNCHANGED <<storeVars, crawlVars, chunkVars, req, run_pc, page_chunks, chunk_index,
                   chunked, attempts>>
    /\ UNCHANGED writerVars

\* run_ingest lines 45-51: extract_text gives the text t, which is chunked.
ChunkPage ==
    /\ run_pc = "pages"
    /\ page_index <= Len(pages)
    /\ \E t \in PageTexts :
          chunk_text(<<"run_ingest">>, t, req.chunk_size, req.chunk_overlap)
    /\ run_pc' = "chunking"
    /\ UNCHANGED <<req, stats, page_index, page_chunks, chunk_index, chunked, attempts>>
    /\ UNCHANGED writerVars

\* run_ingest lines 51-54: chunk_text has returned its chunks.
ChunksReturned ==
    /\ run_pc = "chunking"
    /\ chunk_pc = "done"
    /\ page_chunks' = chunks
    /\ stats' = [stats EXCEPT !.chunks_created = @ + Len(chunks)]
    /\ chunk_index' = 1
    /\ chunked' = Append(chunked, [page |-> page_index, n |-> Len(chunks)])
    /\ run_pc' = "store"
    /\ caller' = None
    /\ text_in' = None
    /\ chunk_size' = 0
    /\ overlap' = 0
    /\ words' = <<>>
    /\ start' = 0
    /\ chunks' = <<>>
    /\ chunk_pc' = "idle"
    /\ UNCHANGED <<storeVars, crawlVars, req, page_index, attempts>>
    /\ UNCHANGED writerVars

\* A chunk stored under an id that does not change from chunk to chunk.
chunk_to_entry_with_fixed_id(idx, r) ==
    Entry(<<"e1">>,
          IF r.kb_type = TENANT THEN r.tenant_id ELSE None,
          r.kb_type,
          <<"A">> \o (IF idx > 1 THEN <<" (chunk ", Decimal[idx], ")">> ELSE <<>>),
          r.category,
          AwareTime)

\* DataFoundryService._chunk_to_entry; the page's title is "A".
chunk_to_entry(idx, r) ==
    Entry(None,
          IF r.kb_type = TENANT THEN r.tenant_id ELSE None,
          r.kb_type,
          <<"A">> \o (IF idx > 1 THEN <<" (chunk ", Decimal[idx], ")">> ELSE <<>>),
          r.category,
          AwareTime)

\* A write that counts as ingested also when add_entry raised.
record_write_counting_failures(st, ret, url, idx) ==
    IF ret = "ok" THEN [st EXCEPT !.entries_ingested = @ + 1]
    ELSE [st EXCEPT !.entries_ingested = @ + 1,
                    !.errors = Append(@, [url |-> url, kind |-> "Failed to store chunk",
                                          idx |-> idx, exc |-> ret])]

\* run_ingest lines 62-66: add_entry returned, or raised `ret`.
record_write(st, ret, url, idx) ==
    IF ret = "ok" THEN [st EXCEPT !.entries_ingested = @ + 1]
    ELSE [st EXCEPT !.errors = Append(@, [url |-> url, kind |-> "Failed to store chunk",
                                          idx |-> idx, exc |-> ret])]

\* run_ingest lines 54-66: the chunk at hand is turned into an entry and
\* written; uuid4 gives add_entry an id that is stored nowhere.
StoreChunk ==
    /\ run_pc = "store"
    /\ chunk_index <= Len(page_chunks)
    /\ \E fault \in Faults :
          LET entry == chunk_to_entry(chunk_index, req)
              uuid == <<"uuid-", Decimal[Len(attempts) + 1]>>
              r == add_entry_result(collections, entry, uuid, fault)
          IN  /\ collections' = r.collections
              /\ stats' = record_write(stats, r.ret, pages[page_index].url, chunk_index)
              /\ attempts' = Append(attempts, [page |-> page_index, idx |-> chunk_index,
                                               ret |-> r.ret])
    /\ chunk_index' = chunk_index + 1
    /\ UNCHANGED <<crawlVars, chunkVars, req, run_pc, page_index, page_chunks, chunked>>
    /\ UNCHANGED writerVars

\* run_ingest lines 54 and 45: the chunks of the page are exhausted.
PageDone ==
    /\ run_pc = "store"
    /\ chunk_index > Len(page_chunks)
    /\ page_index' = page_index + 1
    /\ page_chunks' = <<>>
    /\ chunk_index' = 0
    /\ run_pc' = "pages"
    /\ UNCHANGED <<storeVars, crawlVars, chunkVars, req, stats, chunked, attempts>>
    /\ UNCHANGED writerVars

\* run_ingest lines 45 and 68: the pages are exhausted, stats is returned.
ReturnStats ==
    /\ run_pc = "pages"
    /\ page_index > Len(pages)
    /\ run_pc' = "returned"
    /\ UNCHANGED <<storeVars, crawlVars, chunkVars, req, stats, page_index, page_chunks,
                   chunk_index, chunked, attempts>>
    /\ UNCHANGED writerVars

\* A request has arrived at a service whose store holds the shared
\* collections and no point.
\* The stores a run starts on: the shared partitions as __init__ creates
\* them, with an entry of category database and one of tenant globex stored
\* before, and with or without a partition of tenant acme holding an entry.
RunStores ==
    LET created == [n \in CommonNames |-> NoPoints]
        shared == add_entry_result(created,
                      Entry(<<"e1">>, None, COMMON, <<"A">>, DATABASE, None),
                      None, NoFault).collections
        globex == add_entry_result(shared,
                      Entry(<<"e1">>, <<"globex">>, TENANT, <<"B">>, DATABASE, NaiveTime),
                      None, NoFault).collections
        acme == add_entry_result(globex,
                      Entry(<<"e1">>, <<"acme">>, TENANT, <<"B">>, DATABASE, NaiveTime),
                      None, NoFault).collections
    IN  {globex, acme}

InitRun ==
    /\ collections \in RunStores
    /\ CrawlIdle
    /\ ChunkIdle
    /\ req \in RunRequests
    /\ run_pc = "received"
    /\ stats = None
    /\ page_index = 0
    /\ page_chunks = <<>>
    /\ chunk_index = 0
    /\ chunked = <<>>
    /\ attempts = <<>>
    /\ WritersIdle

NextRun ==
    \/ IngestDocuments
    \/ SkipEntry \/ StartFetch \/ FetchReturns \/ Return
    \/ CrawlReturned \/ CrawlRaised
    \/ SkipPage \/ ChunkPage \/ ChunkStep \/ ChunksReturned
    \/ StoreChunk \/ PageDone \/ ReturnStats

SpecRun == InitRun /\ [][NextRun]_vars

(***************************************************************************)
(* Properties of the vector store.                                         *)
(***************************************************************************)
\* The searches the properties are stated for: (query, top_k, min_score),
\* scores scaled by 100.
SearchParams ==
    {[query |-> q, top_k |-> 5, min_score |-> 0] : q \in Queries}
    \cup {[query |-> q, top_k |-> 1, min_score |-> 30] : q \in Queries}

\* The backends a read is stated for: either ordering, any partition down.
ReadEnvs == {env \in Envs : ~env.listing_down}

\* The store cut down to the one collection `name`.
Restrict(cols, name) == [n \in DOMAIN cols \cap {name} |-> cols[n]]

\* Everything tenant t can read: every search and every get_entry.
TenantView(cols, t) ==
    [search |-> [p \in SearchParams, env \in ReadEnvs |->
                    search(cols, p.query, TENANT, t, p.top_k, p.min_score, None, env)],
     get |-> [id \in Ids, env \in ReadEnvs |-> get_entry(cols, id, TENANT, t, env)]]

\* Every entry tenant t reads was written as a TENANT entry of t.
ReadsOwnEntriesOnly(t) ==
    LET view == TenantView(collections, t)
    IN  /\ \A p \in SearchParams, env \in ReadEnvs :
            \A i \in 1..Len(view.search[p, env]) :
                /\ view.search[p, env][i].entry.kb_type = TENANT
                /\ view.search[p, env][i].entry.tenant_id = t
        /\ \A id \in Ids, env \in ReadEnvs :
            view.get[id, env] # <<>> =>
                /\ view.get[id, env][1].kb_type = TENANT
                /\ view.get[id, env][1].tenant_id = t

\* What tenant t reads depends on t's partition alone.
ReadsOwnPartitionOnly(t) ==
    TenantView(collections, t)
        = TenantView(Restrict(collections, TENANT_COLLECTION_PREFIX \o t), t)

\* An operation that is not addressed to t's partition leaves it as it is; one
\* that is addressed to it changes it as it would with every other partition
\* absent.  `after` is the store after the operation and `alone` the store
\* after the same operation on t's partition alone.
StepIsolated(t, addressed, after, alone) ==
    LET name == TENANT_COLLECTION_PREFIX \o t
    IN  Restrict(after, name)
            = IF addressed THEN Restrict(alone, name) ELSE Restrict(collections, name)

WritesIsolated(t) ==
    LET own == Restrict(collections, TENANT_COLLECTION_PREFIX \o t)
    IN  /\ \A entry \in Entries, fault \in Faults :
            \A uuid \in (IF entry.id = None THEN Ids \ UsedIds ELSE {None}) :
                StepIsolated(t, entry.kb_type = TENANT /\ entry.tenant_id = t,
                             add_entry_result(collections, entry, uuid, fault).collections,
                             add_entry_result(own, entry, uuid, fault).collections)
        /\ \A entries \in Batches, fault \in BatchFaults :
            \A fresh \in FreshSeqs(entries) :
                StepIsolated(t, \E i \in 1..Len(entries) :
                                    entries[i].kb_type = TENANT /\ entries[i].tenant_id = t,
                             add_entries_result(collections, entries, fresh, fault).collections,
                             add_entries_result(own, entries, fresh, fault).collections)
        /\ \A entry_id \in Ids, kb_type \in KnowledgeBaseType, env \in DeleteEnvs :
            \A tenant_id \in (IF kb_type = TENANT THEN TenantIds \cup {None} ELSE {None}) :
                StepIsolated(t, kb_type = TENANT /\ tenant_id = t,
                             delete_entry_result(collections, entry_id, kb_type, tenant_id,
                                                 env).collections,
                             delete_entry_result(own, entry_id, kb_type, tenant_id,
                                                 env).collections)
        /\ \A tenant_id \in TenantIds, env \in DeleteEnvs :
            StepIsolated(t, tenant_id = t,
                         delete_tenant_collection_result(collections, tenant_id, env).collections,
                         delete_tenant_collection_result(own, tenant_id, env).collections)

\* C1: tenant isolation.  Whatever has been added and deleted, a TENANT search
\* or get_entry for tenant t returns only entries written as TENANT entries of
\* t; what t reads is a function of t's partition; and t's partition is
\* changed only by operations addressed to it, in a way that does not depend
\* on any other partition.  So two histories that differ only in operations
\* addressed to other partitions give t the same results.
C1_TenantIsolation ==
    \A t \in TenantIds :
        /\ ReadsOwnEntriesOnly(t)
        /\ ReadsOwnPartitionOnly(t)
        /\ WritesIsolated(t)

\* The points stored in a collection, none if it does not exist.
PointsOf(cols, name) == IF name \in DOMAIN cols THEN cols[name] ELSE NoPoints

\* C1 witness: both tenants and the shared tier hold a point under the same
\* id, the shared one carrying tenant id acme, and acme's search returns
\* exactly acme's own entry.
C1_Witness ==
    /\ \A t \in TenantIds : <<"e1">> \in DOMAIN PointsOf(collections, TENANT_COLLECTION_PREFIX \o t)
    /\ <<"e1">> \in DOMAIN PointsOf(collections, COMMON_COLLECTION_PREFIX \o <<"database">>)
    /\ PointsOf(collections, COMMON_COLLECTION_PREFIX \o <<"database">>)[<<"e1">>].payload.tenant_id
            = <<"acme">>
    /\ \E env \in ReadEnvs :
            Len(search(collections, <<"B">>, TENANT, <<"acme">>, 5, 0, None, env)) = 1

\* The add_entry calls of the universe, each with the id uuid4 may give it.
AddCalls ==
    {[entry |-> entry, uuid |-> uuid, fault |-> fault] :
        entry \in Entries, uuid \in (Ids \ UsedIds) \cup {None}, fault \in Faults}

\* C2: write routing.  A successful add_entry stores the entry's payload under
\* its id in the partition <shared-prefix><category> (SHARED) or
\* <tenant-prefix><tenant_id> (TENANT); every other partition exists exactly
\* if it did before and holds the points it held before.
C2_WriteRouting ==
    \A c \in {c \in AddCalls : (c.entry.id = None) = (c.uuid # None)} :
        LET r == add_entry_result(collections, c.entry, c.uuid, c.fault)
            e == r.entry
            name == IF e.kb_type = COMMON
                    THEN COMMON_COLLECTION_PREFIX \o CategoryValue(e.category)
                    ELSE TENANT_COLLECTION_PREFIX \o e.tenant_id
        IN  r.ret = "ok" =>
                /\ name \in DOMAIN r.collections
                /\ e.id \in DOMAIN r.collections[name]
                /\ r.collections[name][e.id].payload = to_dict(e)
                /\ \A n \in (DOMAIN collections \cup DOMAIN r.collections) \ {name} :
                    /\ n \in DOMAIN collections
                    /\ n \in DOMAIN r.collections
                    /\ r.collections[n] = collections[n]

\* C2 witness: adds have succeeded in a tenant partition and in a shared one,
\* next to a partition written before.
C2_Witness ==
    /\ DOMAIN PointsOf(collections, TENANT_COLLECTION_PREFIX \o <<"globex">>) = {<<"e2">>}
    /\ DOMAIN PointsOf(collections, TENANT_COLLECTION_PREFIX \o <<"acme">>) = {<<"e1">>}
    /\ DOMAIN PointsOf(collections, COMMON_COLLECTION_PREFIX \o <<"kubernetes">>) = {<<"e1">>}

\* The entry lacks the field its tier requires.
MissingRequiredField(entry) ==
    \/ entry.kb_type = COMMON /\ entry.category = None
    \/ entry.kb_type = TENANT /\ ~Truthy(entry.tenant_id)

\* C3: add_entry of a SHARED entry without category, or of a TENANT entry
\* without tenant_id, raises the validation error (ValueError) and leaves the
\* store as it was.
C3_ValidationError ==
    \A c \in {c \in AddCalls : (c.entry.id = None) = (c.uuid # None)} :
        LET r == add_entry_result(collections, c.entry, c.uuid, c.fault)
        IN  MissingRequiredField(c.entry) =>
                /\ r.ret = "ValueError"
                /\ r.collections = collections

\* The half of C3 that add_entry keeps: whatever it raises on a missing
\* required field, no partition is created and no point is upserted.
C3_StoreUnchanged ==
    \A c \in {c \in AddCalls : (c.entry.id = None) = (c.uuid # None)} :
        LET r == add_entry_result(collections, c.entry, c.uuid, c.fault)
        IN  MissingRequiredField(c.entry) =>
                /\ r.ret \in {"ValueError", "AttributeError"}
                /\ r.collections = collections

\* The shared partitions that hold a point under `id`.
SharedHolders(cols, id) == {n \in CommonNames \cap DOMAIN cols : id \in DOMAIN cols[n]}

\* C4: upsert semantics.  However entries were added, an id is stored at most
\* once in the shared tier, so count_entries(SHARED) is the number of distinct
\* ids added and not deleted: a re-add, also under another category, does not
\* make it grow.
C4_OnePointPerId ==
    /\ \A id \in Ids : Cardinality(SharedHolders(collections, id)) <= 1
    /\ \A env \in HealthyEnvs :
        count_entries(collections, COMMON, None, env)
            = Cardinality({id \in Ids : SharedHolders(collections, id) # {}})

\* C5: round trip.  After a successful add_entry(e), get_entry with e's id,
\* tier and tenant_id returns an entry equal to e in every field, whatever
\* the other partitions hold.
C5_RoundTrip ==
    \A c \in {c \in AddCalls : (c.entry.id = None) = (c.uuid # None) /\ c.fault = NoFault} :
        LET r == add_entry_result(collections, c.entry, c.uuid, c.fault)
        IN  r.ret = "ok" =>
                \A env \in HealthyEnvs :
                    get_entry(r.collections, r.entry.id, r.entry.kb_type,
                              r.entry.tenant_id, env) = <<r.entry>>


(***************************************************************************)
(* Properties of the crawler.                                              *)
(***************************************************************************)
Crawling == pc \in {"loop", "fetch", "done", "raised"}

\* C6: within one crawl call no URL, compared with its fragment stripped, is
\* fetched more than once.
C6_NoRefetch ==
    Crawling =>
        \A i, j \in 1..Len(fetched) :
            i # j => StripFragment(fetched[i]) # StripFragment(fetched[j])

\* What C6 leaves when the root URL carries no fragment: no URL is fetched
\* twice.
C6_NoRefetch_FragmentFreeRoot ==
    (Crawling /\ args.root_url.fragment = "") =>
        \A i, j \in 1..Len(fetched) : i # j => fetched[i] # fetched[j]

\* C7: at every step of a crawl and in its result the number of gathered
\* pages is at most max_pages.
C7_PageLimit == Crawling => Len(pages) <= args.max_pages

\* The crawl stopped at the page limit with links still on the frontier.
C7_Witness ==
    /\ pc = "done"
    /\ Len(pages) = args.max_pages
    /\ queue # <<>>
    /\ args.max_pages > 1

\* hostname is `domain` or a proper subdomain of it
IsSubdomainOf(hostname, domain) == EndsWithDot(hostname, domain)

\* C8: no URL whose hostname fails the filter is ever fetched, the root
\* included; with allowed_domains unset every fetched URL has the root URL's
\* own hostname, or a proper subdomain of it only when include_subdomains.
C8_DomainFilter ==
    Crawling =>
        \A i \in 1..Len(fetched) :
            LET hostname == Lower(fetched[i].host)
            IN  /\ is_allowed(fetched[i], normalized_allowed(args),
                              args.include_subdomains)
                /\ args.allowed_domains = None =>
                       \/ hostname = args.root_url.host
                       \/ /\ args.include_subdomains
                          /\ IsSubdomainOf(hostname, args.root_url.host)

\* With allowed_domains unset a subdomain of the root's host was fetched
\* after the root, and the crawl is over.
C8_Witness ==
    /\ pc = "done"
    /\ args.allowed_domains = None
    /\ Len(fetched) >= 2
    /\ \E i \in 1..Len(fetched) : fetched[i].host = DocsExampleCom

\* C9: every crawl eventually returns, provided each fetch completes; it
\* has then emptied the frontier or gathered max_pages pages.
C9_Terminates ==
    <>[](pc = "done" /\ (queue = <<>> \/ Len(pages) = args.max_pages))

\* A crawl in which one fetch raised has gathered two pages, emptied the
\* frontier and returned.
C9_Witness ==
    /\ pc = "done"
    /\ Len(pages) >= 2
    /\ queue = <<>>
    /\ \E i \in 1..Len(errors) : errors[i].kind = "raises"

\* C10: every page of the result has depth <= max_depth, a page fetched at
\* depth = max_depth adds no links to the frontier, and with max_depth = 0
\* only the root is fetched.
C10_DepthBound ==
    [][Crawling =>
        /\ \A i \in 1..Len(pages') : pages'[i].depth <= args.max_depth
        /\ (pc = "fetch" /\ current[2] = args.max_depth) => queue' = queue
        /\ args.max_depth = 0 => fetched' \in {<<>>, <<args.root_url>>}]_vars

\* A page was gathered at depth = max_depth > 0 and the crawl goes on.
C10_Witness ==
    /\ pc = "loop"
    /\ args.max_depth > 0
    /\ pages # <<>>
    /\ pages[Len(pages)].depth = args.max_depth


\* What C9 leaves: every crawl stops, by returning or by raising.
C9_Stops == <>[](pc \in {"done", "raised"})

\* C11: a fetch that raises or returns a status >= 400 adds exactly one
\* message to the error list, produces no page and does not abort the crawl:
\* the frontier is kept and the loop goes on.
C11_FetchErrorSkipped ==
    [][\A r \in Responses :
          (r.kind \in {"raises", "status>=400"} /\ fetch_returns(r)) =>
              /\ Len(errors') = Len(errors) + 1
              /\ errors'[Len(errors')].url = current[1]
              /\ pages' = pages
              /\ queue' = queue
              /\ pc' = "loop"]_vars

\* A fetch answered with a status >= 400, and a URL that was on the frontier
\* then was fetched afterwards and became a page.
C11_Witness ==
    /\ Len(errors) = 1 /\ errors[1].kind = "status>=400"
    /\ \E i, k \in 1..Len(fetched) :
          /\ i < k
          /\ \E e \in 1..Len(errors) : errors[e].url = fetched[i]
          /\ \E j \in 1..Len(pages) : pages[j].url = fetched[k]

\* C12: the crawl has no overall failure state: whatever happens on a page,
\* crawl does not raise and returns the pages gathered and the error list.
C12_NoFailureState == Crawling => pc # "raised"

\* What C12 leaves: a failed fetch never makes crawl raise.
C12_FetchErrorsCollected ==
    [][\A r \in Responses :
          (r.kind \in {"raises", "status>=400"} /\ fetch_returns(r)) =>
              pc' # "raised"]_vars


(***************************************************************************)
(* Properties of chunking.                                                 *)
(***************************************************************************)
\* ws without its last k words
WithoutTrailing(ws, k) == SubSeq(ws, 1, Len(ws) - k)

\* The words of every chunk but the last without their trailing `ov` words,
\* then the words of the last chunk, one after the other.
RECURSIVE Reconstruct(_, _)
Reconstruct(cs, ov) ==
    IF cs = <<>> THEN <<>>
    ELSE IF Len(cs) = 1 THEN split(cs[1])
    ELSE WithoutTrailing(split(Head(cs)), ov) \o Reconstruct(Tail(cs), ov)

\* C13: for chunk_size > overlap >= 0 and every word sequence W, each chunk
\* of chunk_text(W) minus its trailing `overlap` words (the last chunk
\* whole), concatenated in order, is exactly W.
C13_ChunkReconstruction ==
    (chunk_pc = "done" /\ chunk_size > overlap) =>
        Reconstruct(chunks, overlap) = split(text_in)

\* A text of eight words was cut into four overlapping chunks.
C13_Witness ==
    /\ chunk_pc = "done"
    /\ chunk_size > overlap /\ overlap > 0
    /\ Len(words) = MaxWords
    /\ Len(chunks) >= 4

\* The window structure of the chunks of the text t.
WindowStructure(t) ==
    LET W == split(t)
        step == chunk_size - overlap
    IN  IF Len(W) <= chunk_size
        THEN chunks = <<join(W)>>
        ELSE /\ chunks # <<>>
             /\ \A i \in 1..Len(chunks) :
                   LET c == split(chunks[i])
                       first == (i - 1) * step
                   IN  /\ chunks[i] = join(c)
                       /\ Len(c) <= chunk_size
                       /\ c = Slice(W, first, first + chunk_size)
                       /\ i < Len(chunks) =>
                              /\ Len(c) = chunk_size
                              /\ SubSeq(c, chunk_size - overlap + 1, chunk_size)
                                     = SubSeq(split(chunks[i + 1]), 1, overlap)
                              /\ first + chunk_size < Len(W)
                       /\ i = Len(chunks) => first + Len(c) = Len(W)

\* C14 as stated: for chunk_size > overlap >= 0 every text has the window
\* structure: at most chunk_size words per chunk, exactly chunk_size in all
\* but the last, chunk i starting at word i * (chunk_size - overlap),
\* neighbours sharing `overlap` words, the last chunk ending at the last
\* word; a text of at most chunk_size words gives one chunk with all words.
C14_WindowStructure_EveryText ==
    (chunk_pc = "done" /\ chunk_size > overlap) => WindowStructure(text_in)

\* C14 with the empty string apart: it gives no chunk, every other text has
\* the window structure.
C14_WindowStructure ==
    (chunk_pc = "done" /\ chunk_size > overlap) =>
        IF Truthy(text_in) THEN WindowStructure(text_in) ELSE chunks = <<>>

\* chunk_text("a b c d e f g h", 3, 1) returned
\* ["a b c", "c d e", "e f g", "g h"].
C14_Witness ==
    /\ chunk_pc = "done"
    /\ text_in = join(LetterWords(8))
    /\ chunk_size = 3 /\ overlap = 1
    /\ chunks = <<join(<<<<"a">>, <<"b">>, <<"c">>>>),
                  join(<<<<"c">>, <<"d">>, <<"e">>>>),
                  join(<<<<"e">>, <<"f">>, <<"g">>>>),
                  join(<<<<"g">>, <<"h">>>>)>>

\* C15: every request that passes validation reaches chunk_text with
\* chunk_overlap < chunk_size, so that chunking makes progress and ends.
C15_OverlapBelowChunkSize ==
    caller = <<"run_ingest">> => overlap < chunk_size

\* What C15 rests on: with overlap >= chunk_size and more than chunk_size
\* words the window never moves.
C15_StuckWindow ==
    (chunk_pc = "loop" /\ overlap >= chunk_size) => start = 0


(***************************************************************************)
(* Properties of the shared-tier search.                                   *)
(***************************************************************************)
\* The queries, limits and score floors the searches are stated for.
MergeParams ==
    SearchParams
    \cup {[query |-> q, top_k |-> k, min_score |-> m] :
             q \in Queries, k \in {2}, m \in {-100, 70}}

\* The backends a shared search is stated for, with the listing up or down:
\* either ordering with every partition answering, and one ordering with any
\* set of shared partitions failing.
SharedEnvs ==
    {env \in Envs :
        /\ env.down \subseteq CommonNames
        /\ env.down = {} \/ env.order = (CHOOSE o \in Orderings : TRUE).order}

\* The same with the listing up, for searches that name their partitions.
CategoryEnvs == {env \in SharedEnvs : ~env.listing_down}

\* The shared partitions a fan-out search gets an answer from.
Searched(cols, env) ==
    LET names == common_candidates(cols, env)
    IN  {names[i] : i \in 1..Len(names)} \ {n \in AllNames : Raises(cols, n, env)}

ScoreOf(cols, name, id, query) ==
    Cosine(generate_embedding(query), cols[name][id].vector)

\* The points <<partition, id>> of the searched partitions that reach the
\* score floor.
Qualifying(cols, query, min_score, env) ==
    {pt \in Searched(cols, env) \X Ids :
        /\ pt[2] \in DOMAIN cols[pt[1]]
        /\ ScoreOf(cols, pt[1], pt[2], query) >= min_score}

\* The result r is the point pt.
IsPoint(cols, r, pt, query) ==
    /\ r.entry_id = pt[2]
    /\ r.entry = from_dict(cols[pt[1]][pt[2]].payload)
    /\ r.score = ScoreOf(cols, pt[1], pt[2], query)

FanOut(p, env) ==
    search(collections, p.query, COMMON, None, p.top_k, p.min_score, None, env)

\* C16: a shared search without category returns at most top_k results in
\* non-increasing score order, each of score >= min_score, and they are the
\* top_k best of the searched shared partitions: nothing is left out while
\* there is room, and no point left out scores higher than a returned one.
C16_FanOutMerge ==
    \A p \in MergeParams, env \in SharedEnvs :
        LET r == FanOut(p, env)
            Q == Qualifying(collections, p.query, p.min_score, env)
        IN  /\ Len(r) = Min(p.top_k, Cardinality(Q))
            /\ \A i \in 1..Len(r) :
                  /\ r[i].score >= p.min_score
                  /\ i < Len(r) => r[i].score >= r[i + 1].score
                  /\ \E pt \in Q : IsPoint(collections, r[i], pt, p.query)
            /\ \A pt \in Q :
                  \/ \E i \in 1..Len(r) : IsPoint(collections, r[i], pt, p.query)
                  \/ \A i \in 1..Len(r) :
                        r[i].score >= ScoreOf(collections, pt[1], pt[2], p.query)

\* Both shared partitions hold a point, the two score differently for the
\* query, and a search for one result returns the better and leaves the
\* other out, whichever partition is listed first.
C16_Witness ==
    \E p \in MergeParams :
        /\ p.top_k = 1
        /\ \A env \in HealthyEnvs :
              LET r == FanOut(p, env)
                  Q == Qualifying(collections, p.query, p.min_score, env)
              IN  /\ Len(r) = 1
                  /\ \E pt \in Q : IsPoint(collections, r[1], pt, p.query)
                  /\ \E pt, qt \in Q :
                        /\ pt[1] # qt[1]
                        /\ IsPoint(collections, r[1], pt, p.query)
                        /\ ScoreOf(collections, qt[1], qt[2], p.query) < r[1].score


\* C17: a shared search with a category queries that category's partition
\* only: every returned entry is a shared entry of the requested category
\* stored in that partition, whatever the other partitions hold.
C17_CategorySearch ==
    \A p \in MergeParams, env \in CategoryEnvs, cat \in ITIssueCategory,
       t \in {None, <<"acme">>} :
        LET r == search(collections, p.query, COMMON, t, p.top_k, p.min_score, cat, env)
            name == COMMON_COLLECTION_PREFIX \o CategoryValue(cat)
        IN  /\ \A i \in 1..Len(r) :
                  /\ r[i].entry.category = cat
                  /\ r[i].entry.kb_type = COMMON
                  /\ r[i].entry_id \in DOMAIN PointsOf(collections, name)
                  /\ r[i].entry = from_dict(collections[name][r[i].entry_id].payload)
            /\ r = search(Restrict(collections, name), p.query, COMMON, t, p.top_k,
                          p.min_score, cat, env)

\* Both shared partitions and a tenant partition hold points that reach
\* the score floor, and the search of one category returns its own alone.
C17_Witness ==
    \E p \in MergeParams, env \in HealthyEnvs :
        /\ Len(search(collections, p.query, COMMON, None, p.top_k, p.min_score,
                      KUBERNETES, env)) = 1
        /\ Len(search(collections, p.query, COMMON, None, p.top_k, p.min_score,
                      DATABASE, env)) = 1
        /\ \E t \in TenantIds :
              Len(search(collections, p.query, TENANT, t, p.top_k, p.min_score,
                         None, env)) = 1
        /\ p.top_k > 1

\* The store without the collections the backend fails on.
Surviving(cols, env) == [n \in DOMAIN cols \ env.down |-> cols[n]]

\* C18: a partition whose backend call fails during a fan-out search is
\* skipped: the result is the merged top_k of the remaining partitions, and
\* the empty list when every partition fails.
C18_FailedPartitionSkipped ==
    \A p \in MergeParams, env \in SharedEnvs :
        LET r == FanOut(p, env)
        IN  /\ r = search(Surviving(collections, env), p.query, COMMON, None, p.top_k,
                          p.min_score, None, [env EXCEPT !.down = {}])
            /\ Searched(collections, env) = {} => r = <<>>

\* Both shared partitions hold a point that reaches the floor; with the
\* first listed partition failing the search returns the other's point, and
\* with both failing it returns nothing.
C18_Witness ==
    \E p \in MergeParams, env \in Envs :
        /\ ~env.listing_down
        /\ env.down = {common_candidates(collections, env)[1]}
        /\ Len(FanOut(p, [env EXCEPT !.down = {}])) = 2
        /\ Len(FanOut(p, env)) = 1
        /\ FanOut(p, [env EXCEPT !.down = CommonNames]) = <<>>

\* C19: a fan-out shared search returns each entry id at most once, also
\* when the id is stored in more than one category partition.
C19_NoDuplicateIds ==
    \A p \in MergeParams, env \in SharedEnvs :
        LET r == FanOut(p, env)
        IN  \A i, j \in 1..Len(r) : i # j => r[i].entry_id # r[j].entry_id


\* The non-empty common_categories search_both is stated for.
CategoryLists ==
    {<<c>> : c \in ITIssueCategory} \cup {<<c, d>> : c, d \in ITIssueCategory}

\* C20: search_both with a non-empty common_categories returns shared
\* results that hold each entry id at most once, carry for each id the highest
\* score seen in the per-category searches, are in non-increasing score order
\* and number at most common_top_k.
C20_SearchBothDedup ==
    \A p \in MergeParams, env \in CategoryEnvs, cats \in CategoryLists :
        LET r == search_both(collections, p.query, None, p.top_k, p.top_k,
                             p.min_score, cats, env).common
            seen == UNION {LET s == search(collections, p.query, COMMON, None, p.top_k,
                                           p.min_score, cats[c], env)
                           IN  {s[i] : i \in 1..Len(s)} : c \in 1..Len(cats)}
        IN  /\ Len(r) <= p.top_k
            /\ \A i, j \in 1..Len(r) : i # j => r[i].entry_id # r[j].entry_id
            /\ \A i \in 1..Len(r) :
                  /\ r[i] \in seen
                  /\ \A x \in seen : x.entry_id = r[i].entry_id => x.score <= r[i].score
                  /\ i < Len(r) => r[i].score >= r[i + 1].score

\* The id e1 is stored in both shared partitions, the two copies score
\* differently for the query, and search_both over both categories returns e1
\* once, with the higher score, whichever category is searched first.
C20_Witness ==
    \E p \in MergeParams, env \in HealthyEnvs :
        LET d == search(collections, p.query, COMMON, None, p.top_k, p.min_score,
                        DATABASE, env)
            k == search(collections, p.query, COMMON, None, p.top_k, p.min_score,
                        KUBERNETES, env)
        IN  /\ Len(d) = 1 /\ Len(k) = 1
            /\ d[1].entry_id = k[1].entry_id
            /\ d[1].score > k[1].score
            /\ \A cats \in {<<DATABASE, KUBERNETES>>, <<KUBERNETES, DATABASE>>} :
                  search_both(collections, p.query, None, p.top_k, p.top_k,
                              p.min_score, cats, env).common = d

(***************************************************************************)
(* Properties of the tenant tier, of deletion and of counting.             *)
(***************************************************************************)
\* The store with two more tenant collections, each holding a point that
\* matches every query alike: the one a tenant_id "" would name and the one
\* a tenant_id None would name.
WithUnnamedTenants(cols) ==
    LET stray == [i \in {<<"e1">>} |->
                     PointStruct(i, 0, to_dict(Entry(i, <<>>, TENANT, <<"A">>, DATABASE, None)))]
        names == {get_tenant_collection_name(<<>>), get_tenant_collection_name(None)}
    IN  [n \in DOMAIN cols \cup names |-> IF n \in names THEN stray ELSE cols[n]]

\* The backends a search without tenant context is stated for: every call
\* answering, in either listing order, and every call failing.
NoContextEnvs ==
    HealthyEnvs \cup {env \in Envs : env.listing_down /\ env.down = CommonNames}

\* C21: without a tenant context there are no tenant-tier results.  A TENANT
\* search with tenant_id None returns the empty list and calls client.search
\* on no partition, whatever the backend does; search_both with tenant_id
\* None or "" returns an empty tenant list, whatever the tenant partitions
\* hold.
C21_NoTenantContext ==
    \A p \in SearchParams, env \in NoContextEnvs :
        \A cols \in {collections, WithUnnamedTenants(collections)} :
            /\ search(cols, p.query, TENANT, None, p.top_k, p.min_score, None, env) = <<>>
            /\ search_collection_names(cols, TENANT, None, None, env) = <<>>
            /\ \A tenant_id \in {None, <<>>} :
                  search_both(cols, p.query, tenant_id, p.top_k, p.top_k, p.min_score,
                              None, env).tenant = <<>>

\* Both tenants hold points that a search_both with their tenant_id returns,
\* and a search_both without tenant_id returns shared results and no tenant
\* result.
C21_Witness ==
    \E p \in SearchParams, env \in HealthyEnvs :
        /\ \A t \in TenantIds :
              search_both(collections, p.query, t, p.top_k, p.top_k, p.min_score,
                          None, env).tenant # <<>>
        /\ search_both(collections, p.query, None, p.top_k, p.top_k, p.min_score,
                       None, env).common # <<>>
        /\ search_both(collections, p.query, <<>>, p.top_k, p.top_k, p.min_score,
                       None, env).tenant = <<>>

\* The backends a delete is stated for: one listing order, the listing up or
\* down, any set of shared partitions or one tenant partition failing.
DeleteCallEnvs == {env \in Envs : env.order = (CHOOSE o \in Orderings : TRUE).order}

\* The candidate partitions of delete_entry, as a set.
DeleteCandidates(cols, kb_type, tenant_id, env) ==
    IF kb_type = TENANT
    THEN IF tenant_id = None THEN {} ELSE {TENANT_COLLECTION_PREFIX \o tenant_id}
    ELSE LET names == common_candidates(cols, env)
         IN  {names[i] : i \in 1..Len(names)}

\* C22: delete_entry calls client.delete on every candidate partition: each
\* candidate that answers no longer holds the id and keeps its other points,
\* also when another candidate failed before it; every other partition is
\* left as it was; the call returns true exactly if some candidate answered.
\* For tier TENANT without tenant_id it returns false and changes nothing.
C22_DeleteEveryCandidate ==
    \A entry_id \in Ids, kb_type \in KnowledgeBaseType, env \in DeleteCallEnvs :
        \A tenant_id \in (IF kb_type = TENANT THEN TenantIds \cup {None} ELSE {None}) :
            LET r == delete_entry_result(collections, entry_id, kb_type, tenant_id, env)
                candidates == DeleteCandidates(collections, kb_type, tenant_id, env)
                accepted == {n \in candidates : ~Raises(collections, n, env)}
            IN  /\ r.success = (accepted # {})
                /\ DOMAIN r.collections = DOMAIN collections
                /\ \A n \in DOMAIN collections :
                      IF n \in accepted
                      THEN /\ entry_id \notin DOMAIN r.collections[n]
                           /\ \A i \in DOMAIN collections[n] \ {entry_id} :
                                 /\ i \in DOMAIN r.collections[n]
                                 /\ r.collections[n][i] = collections[n][i]
                      ELSE r.collections[n] = collections[n]
                /\ (kb_type = TENANT /\ tenant_id = None) =>
                      r.success = FALSE /\ r.collections = collections

\* Both shared partitions hold the id; with the first candidate failing the
\* delete removes the id from the second and returns true, and with both
\* failing it returns false.
C22_Witness ==
    \E entry_id \in Ids, env \in DeleteCallEnvs :
        LET names == common_candidates(collections, env)
            r == delete_entry_result(collections, entry_id, COMMON, None, env)
            none == delete_entry_result(collections, entry_id, COMMON, None,
                                        [env EXCEPT !.down = CommonNames])
        IN  /\ Len(names) = 2
            /\ env.down = {names[1]}
            /\ \A i \in 1..2 : entry_id \in DOMAIN PointsOf(collections, names[i])
            /\ r.success
            /\ entry_id \notin DOMAIN r.collections[names[2]]
            /\ entry_id \in DOMAIN r.collections[names[1]]
            /\ ~none.success

\* C23: delete_tenant_collection(T) reports success when T's partition exists
\* and not-found when T has no partition; repeated after a successful delete
\* it reports not-found and changes nothing.
C23_DeleteTenantCollection ==
    \A t \in TenantIds, env \in HealthyEnvs :
        LET name == TENANT_COLLECTION_PREFIX \o t
            r == delete_tenant_collection_result(collections, t, env)
            again == delete_tenant_collection_result(r.collections, t, env)
        IN  /\ r.success = (name \in DOMAIN collections)
            /\ ~again.success
            /\ again.collections = r.collections

\* The part of C23 that delete_tenant_collection keeps: it removes T's
\* partition and no other, and a repeat changes nothing.
C23_DeleteIdempotent ==
    \A t \in TenantIds, env \in HealthyEnvs :
        LET name == TENANT_COLLECTION_PREFIX \o t
            r == delete_tenant_collection_result(collections, t, env)
            again == delete_tenant_collection_result(r.collections, t, env)
        IN  /\ r.success
            /\ r.collections = [n \in DOMAIN collections \ {name} |-> collections[n]]
            /\ again.collections = r.collections

RECURSIVE SumOver(_, _)
\* The sum of count[x] over the set S.
SumOver(count, S) ==
    IF S = {} THEN 0
    ELSE LET x == CHOOSE x \in S : TRUE
         IN  count[x] + SumOver(count, S \ {x})

\* The ids stored in some partition of the set `names`.
IdsStoredIn(cols, names) == UNION {DOMAIN cols[n] : n \in names \cap DOMAIN cols}

\* The counts are sums over the partitions of a tier: the tenant count
\* without tenant_id is the sum of the per-tenant counts, the shared count the
\* sum of the point counts of the shared partitions, and the count of a tenant
\* without partition is 0.
CountsAreSums(env) ==
    LET tenants == {t \in TenantIds : TENANT_COLLECTION_PREFIX \o t \in DOMAIN collections}
    IN  /\ count_entries(collections, TENANT, None, env)
              = SumOver([t \in tenants |-> count_entries(collections, TENANT, t, env)], tenants)
        /\ count_entries(collections, COMMON, None, env)
              = SumOver([n \in CommonNames \cap DOMAIN collections |->
                            Cardinality(DOMAIN collections[n])],
                        CommonNames \cap DOMAIN collections)
        /\ \A t \in TenantIds \ tenants : count_entries(collections, TENANT, t, env) = 0

\* C24: the counts are sums over the partitions of the tier, and after any
\* sequence of adds and deletes each count is the number of distinct ids
\* stored in its partition set.
C24_CountEntries ==
    \A env \in HealthyEnvs :
        /\ CountsAreSums(env)
        /\ count_entries(collections, COMMON, None, env)
              = Cardinality(IdsStoredIn(collections, CommonNames))
        /\ count_entries(collections, TENANT, None, env)
              = Cardinality(IdsStoredIn(collections, TenantNames))
        /\ \A t \in TenantIds :
              count_entries(collections, TENANT, t, env)
                  = Cardinality(IdsStoredIn(collections, {TENANT_COLLECTION_PREFIX \o t}))

\* The part of C24 that count_entries keeps: each count is the sum of the
\* point counts of its partitions, so an id stored in two partitions of a
\* tier counts twice.
C24_CountsArePointCounts ==
    \A env \in HealthyEnvs :
        /\ CountsAreSums(env)
        /\ count_entries(collections, COMMON, None, env)
              = Cardinality({pt \in CommonNames \X Ids :
                                pt[2] \in DOMAIN PointsOf(collections, pt[1])})
        /\ count_entries(collections, TENANT, None, env)
              = Cardinality({pt \in TenantNames \X Ids :
                                pt[2] \in DOMAIN PointsOf(collections, pt[1])})

RECURSIVE add_serially(_, _, _)
\* for entry in entries: add_entry(entry), on a backend that answers; a call
\* that raises is followed by the next one.  The store afterwards and what
\* each call returned or raised.
add_serially(cols, entries, fresh) ==
    IF entries = <<>> THEN [collections |-> cols, rets |-> <<>>]
    ELSE LET entry == Head(entries)
             r == add_entry_result(cols, entry,
                                   IF entry.id = None THEN Head(fresh) ELSE None, NoFault)
             rest == add_serially(r.collections, Tail(entries),
                                  IF entry.id = None THEN Tail(fresh) ELSE fresh)
         IN  [collections |-> rest.collections, rets |-> <<r.ret>> \o rest.rets]

\* Two stores hold the same collections with the same points.
SameStore(a, b) ==
    /\ DOMAIN a = DOMAIN b
    /\ \A n \in DOMAIN a :
          /\ DOMAIN a[n] = DOMAIN b[n]
          /\ \A i \in DOMAIN a[n] : a[n][i] = b[n][i]

\* The lists add_entries is compared with serial add_entry on: up to
\* MaxBatch entries, valid or not, of either tier.
EquivBatches == UNION {[1..n -> Entries] : n \in 0..MaxBatch}

\* C27: add_entries is equivalent to serial add_entry.  On a backend that
\* answers, add_entries raises the validation error (ValueError) exactly if
\* add_entry would raise on some entry of the list, and when every add_entry
\* succeeds add_entries leaves the store as the serial calls leave it.
C27_BatchEquivalence ==
    \A entries \in EquivBatches :
        \A fresh \in FreshSeqs(entries) :
            LET batch == add_entries_result(collections, entries, fresh, NoFault)
                serial == add_serially(collections, entries, fresh)
                fails == \E i \in 1..Len(entries) : serial.rets[i] # "ok"
            IN  /\ (batch.ret = "ValueError") = fails
                /\ ~fails => batch.ret = "ok" /\ SameStore(batch.collections, serial.collections)

\* The part of C27 that add_entries keeps: it raises exactly if add_entry
\* would raise on some entry, and when no call raises the stores agree.
C27_FailsAlike ==
    \A entries \in EquivBatches :
        \A fresh \in FreshSeqs(entries) :
            LET batch == add_entries_result(collections, entries, fresh, NoFault)
                serial == add_serially(collections, entries, fresh)
                fails == \E i \in 1..Len(entries) : serial.rets[i] # "ok"
            IN  /\ (batch.ret # "ok") = fails
                /\ ~fails => SameStore(batch.collections, serial.collections)

\* The pairs (tier, category or tenant_id) partitions are named for.
NamePairs == ({COMMON} \X ITIssueCategory) \cup ({TENANT} \X NamingTenantIds)

\* The partition name of a pair.
NameOf(pair) ==
    IF pair[1] = COMMON THEN get_common_collection_name(pair[2])
    ELSE get_tenant_collection_name(pair[2])

\* C28: partition naming is injective in (tier, category or tenant_id), also
\* for a tenant_id that equals a category value or starts with a prefix: two
\* distinct pairs have distinct names, so every stored point lies in the
\* partition of its own pair; and list_tenant_collections, which strips the
\* tenant prefix, gives back exactly the tenant ids that have a partition.
C28_NamingInjective ==
    /\ \A p, q \in NamePairs : p # q => NameOf(p) # NameOf(q)
    /\ \A n \in DOMAIN collections :
          \A i \in DOMAIN collections[n] :
              LET e == from_dict(collections[n][i].payload)
              IN  /\ TargetName(e) = n
                  /\ \A p \in NamePairs :
                        NameOf(p) = n =>
                            p = <<e.kb_type, IF e.kb_type = COMMON THEN e.category
                                             ELSE e.tenant_id>>
    /\ LET listed == list_tenant_collections(collections, NamingEnv)
       IN  /\ {listed[i] : i \in 1..Len(listed)}
                 = {t \in NamingTenantIds : NameOf(<<TENANT, t>>) \in DOMAIN collections}
           /\ \A i \in 1..Len(listed) :
                 get_tenant_collection_name(listed[i]) \in DOMAIN collections

\* The tenants "database", "common_database", "kb_common_database" and
\* "kb_tenant_acme" have each a partition with a point, next to the shared
\* partition of category database, which holds a point of its own, and to a
\* tenant acme without partition.
C28_Witness ==
    /\ \A t \in {<<"database">>, <<"common_", "database">>, <<"kb_", "common_", "database">>,
                  <<"kb_", "tenant_", "acme">>} :
          /\ get_tenant_collection_name(t) \in DOMAIN collections
          /\ collections[get_tenant_collection_name(t)][<<"e1">>].payload.tenant_id = t
    /\ get_tenant_collection_name(<<"acme">>) \notin DOMAIN collections
    /\ <<"e1">> \in DOMAIN collections[get_common_collection_name(DATABASE)]
    /\ collections[get_common_collection_name(DATABASE)][<<"e1">>].payload.kb_type
          = KbTypeValue(COMMON)
    /\ Len(list_tenant_collections(collections, NamingEnv)) = 4

\* C29: after any sequence of add_entry / add_entries, every stored entry
\* carries a tenant_id exactly if its tier is TENANT; an entry in a shared
\* partition carries none.
C29_TenantIdIffTenant ==
    \A n \in DOMAIN collections :
        \A i \in DOMAIN collections[n] :
            LET payload == collections[n][i].payload
            IN  /\ Truthy(payload.tenant_id) <=> payload.kb_type = KbTypeValue(TENANT)
                /\ StartsWith(n, COMMON_COLLECTION_PREFIX) => payload.tenant_id = None

\* The half of C29 the vector store enforces: a stored entry of tier TENANT
\* carries the tenant_id of its partition.
C29_TenantEntriesCarryTenantId ==
    \A n \in DOMAIN collections :
        \A i \in DOMAIN collections[n] :
            LET payload == collections[n][i].payload
            IN  payload.kb_type = KbTypeValue(TENANT) =>
                    /\ Truthy(payload.tenant_id)
                    /\ n = get_tenant_collection_name(payload.tenant_id)

\* C30: chunk_text terminates for every text whenever
\* chunk_size > overlap >= 0: every turn of the loop that does not end the
\* call moves the window start strictly forward, the turn that ends it has
\* its window at the last word, and every call that entered the loop
\* returns.
C30_ChunkTextTerminates ==
    /\ [][(chunk_pc = "loop" /\ chunk_size > overlap /\ overlap >= 0) =>
             /\ chunk_pc' = "loop" => start' > start /\ start' < Len(words)
             /\ chunk_pc' = "done" =>
                   /\ start' = start
                   /\ start < Len(words)
                   /\ window_end(start, chunk_size, Len(words)) = Len(words)]_vars
    /\ (chunk_pc = "loop" /\ chunk_size > overlap /\ overlap >= 0) ~> (chunk_pc = "done")

\* A call with 0 < overlap < chunk_size has returned after at least three
\* turns of the loop.
C30_Witness ==
    /\ chunk_pc = "done"
    /\ chunk_size > overlap
    /\ overlap > 0
    /\ start > 0
    /\ Len(chunks) >= 3
    /\ Len(words) > chunk_size

(***************************************************************************)
(* Properties of an ingestion run.                                         *)
(***************************************************************************)
RECURSIVE ChunkKeys(_)
\* The chunks the run has created, as <<page, idx>> in the order of creation.
ChunkKeys(calls) ==
    IF calls = <<>> THEN <<>>
    ELSE [i \in 1..Head(calls).n |-> <<Head(calls).page, i>>] \o ChunkKeys(Tail(calls))

\* The errors run_ingest recorded after those of the crawl.
StorageErrors == SubSeq(stats.errors, Len(errors) + 1, Len(stats.errors))

\* The add_entry calls that raised, in the order of the calls.
FailedAttempts == SelectSeq(attempts, LAMBDA a : a.ret # "ok")

\* C25: ingestion accounting.  When run_ingest returns, chunks_created is
\* entries_ingested plus the number of storage errors; add_entry was called
\* once for every chunk, in the order of the chunks, whatever the calls
\* before it did; the error list is the crawl's errors followed by one
\* storage error per failed write, in order; and entries_ingested is
\* chunks_created when no write failed.
C25_IngestAccounting ==
    run_pc = "returned" =>
        /\ stats.chunks_created = stats.entries_ingested + Len(StorageErrors)
        /\ stats.chunks_created = Len(ChunkKeys(chunked))
        /\ [i \in 1..Len(attempts) |-> <<attempts[i].page, attempts[i].idx>>]
              = ChunkKeys(chunked)
        /\ SubSeq(stats.errors, 1, Len(errors)) = errors
        /\ Len(StorageErrors) = Len(FailedAttempts)
        /\ \A i \in 1..Len(StorageErrors) :
              /\ StorageErrors[i].url = pages[FailedAttempts[i].page].url
              /\ StorageErrors[i].idx = FailedAttempts[i].idx
              /\ StorageErrors[i].exc = FailedAttempts[i].ret
        /\ FailedAttempts = <<>> => stats.entries_ingested = stats.chunks_created

\* A run has returned after a crawl error and a page of two chunks, the
\* write of the first chunk having failed and that of the second succeeded.
C25_Witness ==
    /\ run_pc = "returned"
    /\ errors # <<>>
    /\ Len(attempts) = 2
    /\ attempts[1].page = attempts[2].page
    /\ attempts[1].ret # "ok"
    /\ attempts[2].ret = "ok"
    /\ stats.entries_ingested = 1

\* C26: an ingestion request with tier TENANT and no tenant_id (absent or
\* empty) is rejected: no crawl is started, no page is fetched and no
\* add_entry is called for it.
C26_TenantIdRequired ==
    (req.kb_type = TENANT /\ req.tenant_id \in {None, <<>>}) =>
        /\ run_pc \in {"received", "rejected"}
        /\ pc = "idle"
        /\ fetched = <<>>
        /\ attempts = <<>>
        /\ \E before \in RunStores : SameStore(collections, before)

\* A TENANT request with the empty tenant_id has been rejected.
C26_Witness ==
    /\ run_pc = "rejected"
    /\ req.kb_type = TENANT
    /\ req.tenant_id = <<>>
    /\ fetched = <<>>

(***************************************************************************)
(* Properties of the crawl's order and of its fetches.                     *)
(***************************************************************************)
\* The URLs the gathered pages link to, as the crawl read them.
LinkedFrom(urls) ==
    UNION {{pages[i].links[k] : k \in 1..Len(pages[i].links)} :
               i \in {j \in 1..Len(pages) : pages[j].url \in urls}}

\* The URLs a link path of at most k links leads to from the root, every
\* page on the path but the last a gathered one.
RECURSIVE Within(_)
Within(k) == IF k = 0 THEN {args.root_url} ELSE Within(k - 1) \cup LinkedFrom(Within(k - 1))

\* The length of the shortest such path to url, -1 if there is none.
Distance(url) ==
    IF \E k \in 0..Len(pages) : url \in Within(k)
    THEN CHOOSE k \in 0..Len(pages) :
             url \in Within(k) /\ \A m \in 0..(k - 1) : url \notin Within(m)
    ELSE -1

\* C31: the pages are gathered in non-decreasing depth, and the depth of
\* each is the length of the shortest link path from root_url to its URL
\* through gathered pages.
C31_BreadthFirst ==
    /\ \A i, j \in 1..Len(pages) : i < j => pages[i].depth <= pages[j].depth
    /\ \A i \in 1..Len(pages) : pages[i].depth = Distance(pages[i].url)

\* Three pages are returned, the last linked from the root and from the
\* page gathered at depth 1, and recorded at depth 1.
C31_Witness ==
    /\ pc = "done"
    /\ Len(pages) = 3
    /\ pages[1].depth = 0 /\ pages[2].depth = 1 /\ pages[3].depth = 1
    /\ pages[3].url \in LinkedFrom({pages[1].url})
    /\ pages[3].url \in LinkedFrom({pages[2].url})

\* C32: a URL whose fetch fails, or whose response is discarded as an asset
\* under skip_assets, gives no page and no links and leaves the loop running;
\* a discarded asset adds no error message; and the crawl returns only with
\* max_pages pages gathered or with the frontier empty.
C32_SkippedFetch ==
    /\ [][\A r \in Responses :
            (/\ \/ r.kind \in {"raises", "status>=400"}
                \/ args.skip_assets /\ r.kind = "ok" /\ ~r.html
             /\ fetch_returns(r)) =>
                /\ pages' = pages
                /\ queue' = queue
                /\ pc' = "loop"
                /\ r.kind = "ok" => errors' = errors]_vars
    /\ [](pc = "done" => (Len(pages) >= args.max_pages \/ queue = <<>>))

\* The URLs fetched that gave neither a page nor an error message.
DiscardedUrls ==
    {fetched[i] : i \in 1..Len(fetched)}
        \ ({pages[j].url : j \in 1..Len(pages)} \cup {errors[e].url : e \in 1..Len(errors)})

\* The crawl returned max_pages pages after more than max_pages fetches: one
\* response was discarded as an asset, without a message, and a page was
\* gathered after it.
C32_Witness ==
    /\ pc = "done"
    /\ args.skip_assets
    /\ Len(pages) = args.max_pages
    /\ Len(fetched) = Len(pages) + 1
    /\ errors = <<>>
    /\ DiscardedUrls # {}
    /\ pages[Len(pages)].url = fetched[Len(fetched)]

\* C33: within one crawl call at most one fetch is outstanding: the fetch
\* awaited is the one of `current`, the crawl is at its await exactly while
\* there is one, and a frontier entry is taken, and a fetch issued, only when
\* no fetch is outstanding.
C33_OneFetchAtATime ==
    /\ [](Crawling => (pc = "fetch" <=> current # None))
    /\ [][Len(queue') < Len(queue) => pc = "loop" /\ current = None]_vars
    /\ [][fetched' # fetched =>
             /\ pc = "loop" /\ current = None
             /\ fetched' = Append(fetched, current'[1])
             /\ pc' = "fetch"]_vars

\* The second fetch of a crawl is outstanding, the first has given a page,
\* and an entry waits on the frontier.
C33_Witness ==
    /\ pc = "fetch"
    /\ Len(fetched) = 2
    /\ Len(pages) = 1 /\ pages[1].url = fetched[1]
    /\ current[1] = fetched[2]
    /\ queue # <<>>

(***************************************************************************)
(* Properties of partition creation and of batches.                        *)
(***************************************************************************)
\* The batches of one or two entries.
ShortBatches == UNION {[1..n -> BatchEntries] : n \in 1..2}

\* The partitions of the entries of a batch that carry their tier's
\* required field.
ValidatedTargets(entries) ==
    {TargetName(entries[i]) : i \in {j \in 1..Len(entries) : HasRequiredField(entries[j])}}

\* The store `after` has the partitions of `before`, with their points, and
\* besides them only partitions among `created` and points under `ids`.
Extends(before, after, created, ids) ==
    /\ DOMAIN before \subseteq DOMAIN after
    /\ DOMAIN after \ DOMAIN before \subseteq created
    /\ \A n \in DOMAIN before :
          /\ DOMAIN before[n] \subseteq DOMAIN after[n]
          /\ \A i \in DOMAIN after[n] \ ids : i \in DOMAIN before[n] /\ after[n][i] = before[n][i]

\* C34: creating a partition is idempotent and only writes create
\* partitions: ensuring an existing partition leaves the store as it is; a
\* delete_entry leaves the set of partitions as it is, and a search, a
\* get_entry or a count for a tenant without partition answers empty; an
\* add_entry or add_entries creates at most the partitions of its entries
\* that passed validation, and keeps every stored point but those it
\* rewrites.
C34_EnsureIdempotent ==
    /\ \A name \in DOMAIN collections, fault \in Faults :
          /\ SameStore(ensure_collection(collections, name, fault), collections)
          /\ DOMAIN ensure_collection(collections, name, fault)[name] = DOMAIN collections[name]
    /\ \A entry_id \in Ids, kb_type \in KnowledgeBaseType, tenant_id \in TenantIds, env \in DeleteEnvs :
          DOMAIN delete_entry_result(collections, entry_id, kb_type, tenant_id, env).collections
              = DOMAIN collections
    /\ \A t \in TenantIds, env \in HealthyEnvs :
          get_tenant_collection_name(t) \notin DOMAIN collections =>
              /\ search(collections, <<"B">>, TENANT, t, 2, 0, None, env) = <<>>
              /\ count_entries(collections, TENANT, t, env) = 0
    /\ \A entry \in Entries, fault \in Faults :
          \A uuid \in (IF entry.id = None THEN Ids \ UsedIds ELSE {None}) :
              LET r == add_entry_result(collections, entry, uuid, fault)
              IN  Extends(collections, r.collections, ValidatedTargets(<<entry>>),
                          {r.entry.id})
    /\ \A entries \in ShortBatches, fault \in BatchFaults :
          \A fresh \in FreshSeqs(entries) :
              LET r == add_entries_result(collections, entries, fresh, fault)
              IN  Extends(collections, r.collections, ValidatedTargets(entries),
                          {entries[i].id : i \in 1..Len(entries)}
                              \cup {fresh[i] : i \in 1..Len(fresh)})

\* Tenant acme's partition holds two points, the second written into the
\* existing partition, and tenant globex has none.
C34_Witness ==
    /\ get_tenant_collection_name(<<"acme">>) \in DOMAIN collections
    /\ Cardinality(DOMAIN collections[get_tenant_collection_name(<<"acme">>)]) = 2
    /\ get_tenant_collection_name(<<"globex">>) \notin DOMAIN collections

\* The entry passes add_entry's validation.
PassesValidation(e) == e.category # None /\ HasRequiredField(e)

\* The point of call w's entry is stored in the entry's partition, unless
\* another call wrote the same id there.
Stored(w) ==
    LET e == writers[w].entry
    IN  /\ TargetName(e) \in DOMAIN collections
        /\ e.id \in DOMAIN collections[TargetName(e)]
        /\ \E v \in Writers :
              /\ writers[v].entry.id = e.id
              /\ TargetName(writers[v].entry) = TargetName(e)
              /\ collections[TargetName(e)][e.id].payload = to_dict(writers[v].entry)

\* C35: when add_entry calls interleave, also so that both see the partition
\* missing before either creates it, every call whose entry passes
\* validation returns its id with its point stored, and no step of either
\* call removes a partition or a point: the create that loses does not reset
\* the partition.
C35_ConcurrentCreate ==
    /\ [](writers # <<>> =>
            \A w \in Writers :
                (writers[w].pc = "done" /\ PassesValidation(writers[w].entry)) =>
                    writers[w].ret = "ok" /\ Stored(w))
    /\ [][\A n \in DOMAIN collections :
             /\ n \in DOMAIN collections'
             /\ DOMAIN collections[n] \subseteq DOMAIN collections'[n]]_vars

\* Both calls wrote for tenant acme, under different ids, after both had
\* listed the collections without the tenant's partition; both points are
\* stored.
C35_Witness ==
    /\ writers # <<>>
    /\ \A w \in Writers :
          /\ writers[w].pc = "done" /\ writers[w].ret = "ok"
          /\ TargetName(writers[w].entry) = get_tenant_collection_name(<<"acme">>)
          /\ get_tenant_collection_name(<<"acme">>) \notin writers[w].names
    /\ writers[1].entry.id # writers[2].entry.id
    /\ DOMAIN collections[get_tenant_collection_name(<<"acme">>)] = {<<"e1">>, <<"e2">>}

\* Some entry of the batch lacks its tier's required field.
FailsValidation(entries) == \E i \in 1..Len(entries) : ~HasRequiredField(entries[i])

\* C36: if any entry of an add_entries batch fails validation, the call
\* raises the validation error with the store unchanged: no point of the
\* batch upserted and no partition created.
C36_BatchAllOrNothing ==
    \A entries \in ShortBatches, fault \in BatchFaults :
        \A fresh \in FreshSeqs(entries) :
            FailsValidation(entries) =>
                LET r == add_entries_result(collections, entries, fresh, fault)
                IN  /\ r.ret = "ValueError"
                    /\ SameStore(r.collections, collections)

\* What C36 leaves: the call raises the validation error, no point is
\* upserted, and a partition it created is empty.
C36_NoPointUpserted ==
    \A entries \in ShortBatches, fault \in BatchFaults :
        \A fresh \in FreshSeqs(entries) :
            FailsValidation(entries) =>
                LET r == add_entries_result(collections, entries, fresh, fault)
                IN  /\ r.ret = "ValueError"
                    /\ r.ids = <<>>
                    /\ Extends(collections, r.collections, ValidatedTargets(entries), {})
                    /\ \A n \in DOMAIN r.collections \ DOMAIN collections :
                          r.collections[n] = NoPoints

(***************************************************************************)
(* Properties of what follows a delete.                                    *)
(***************************************************************************)
\* The tenant_id arguments of a call on a tier.
TenantArgs(kb_type) == IF kb_type = TENANT THEN TenantIds ELSE {None}

\* C37: after delete_entry(id, tier, tenant_id) has returned True,
\* get_entry(id, tier, tenant_id) returns None, also when a candidate
\* partition failed during the delete.
C37_DeletedEntryGone ==
    \A entry_id \in Ids, kb_type \in KnowledgeBaseType, env \in DeleteEnvs :
        \A tenant_id \in TenantArgs(kb_type) :
            LET r == delete_entry_result(collections, entry_id, kb_type, tenant_id, env)
            IN  r.success =>
                    \A later \in HealthyEnvs :
                        get_entry(r.collections, entry_id, kb_type, tenant_id, later) = <<>>

\* What C37 leaves: when every candidate partition answered the delete,
\* get_entry returns None afterwards.
C37_GoneWhenAllAnswer ==
    \A entry_id \in Ids, kb_type \in KnowledgeBaseType, env \in DeleteEnvs :
        \A tenant_id \in TenantArgs(kb_type) :
            LET r == delete_entry_result(collections, entry_id, kb_type, tenant_id, env)
            IN  (r.success /\ env.down = {}) =>
                    \A later \in HealthyEnvs :
                        get_entry(r.collections, entry_id, kb_type, tenant_id, later) = <<>>

\* The entries a tenant's partition is written with after it was deleted.
EntriesOf(t) == {e \in TenantEntries : e.tenant_id = t /\ e.id # None /\ e.category # None}

\* C38: after delete_tenant_collection(T) has succeeded, T is not listed by
\* list_tenant_collections, count_entries(TENANT, T) is 0 and a search for T
\* is empty; every other partition is there with the points it had; and an
\* add_entry for T afterwards recreates T's partition with the new entry
\* alone.
C38_TenantDeleted ==
    \A t \in TenantIds, env \in DeleteEnvs :
        LET name == get_tenant_collection_name(t)
            r == delete_tenant_collection_result(collections, t, env)
        IN  r.success =>
                /\ DOMAIN r.collections = DOMAIN collections \ {name}
                /\ \A n \in DOMAIN r.collections :
                      /\ DOMAIN r.collections[n] = DOMAIN collections[n]
                      /\ \A i \in DOMAIN collections[n] : r.collections[n][i] = collections[n][i]
                /\ \A later \in HealthyEnvs :
                      LET listed == list_tenant_collections(r.collections, later)
                      IN  /\ \A k \in 1..Len(listed) : listed[k] # t
                          /\ count_entries(r.collections, TENANT, t, later) = 0
                          /\ \A query \in Queries :
                                search(r.collections, query, TENANT, t, 2, 0, None, later) = <<>>
                /\ \A entry \in EntriesOf(t) :
                      LET a == add_entry_result(r.collections, entry, None, NoFault)
                      IN  /\ a.ret = "ok"
                          /\ DOMAIN a.collections = DOMAIN collections \cup {name}
                          /\ DOMAIN a.collections[name] = {entry.id}
                          /\ a.collections[name][entry.id].payload = to_dict(entry)

\* Tenant acme's partition holds two points, next to a point of tenant
\* globex and a shared one: the store a delete of acme's partition is told
\* apart on.
C38_Witness ==
    /\ get_tenant_collection_name(<<"acme">>) \in DOMAIN collections
    /\ DOMAIN collections[get_tenant_collection_name(<<"acme">>)] = {<<"e1">>, <<"e2">>}
    /\ get_tenant_collection_name(<<"globex">>) \in DOMAIN collections
    /\ collections[get_tenant_collection_name(<<"globex">>)] # NoPoints
    /\ get_common_collection_name(DATABASE) \in DOMAIN collections
    /\ collections[get_common_collection_name(DATABASE)] # NoPoints
    /\ delete_tenant_collection_result(collections, <<"acme">>,
                                       CHOOSE env \in DeleteEnvs : env.down = {}).success

(***************************************************************************)
(* Properties of the ids add_entries returns.                              *)
(***************************************************************************)
\* The batches of three entries, which can interleave two partitions.
TripleBatches == [1..3 -> BatchEntries]

\* The ids of the entries of a batch after the call, in input order: the
\* entry's own, or the next value of uuid4.
RECURSIVE AssignedIds(_, _)
AssignedIds(entries, fresh) ==
    IF entries = <<>> THEN <<>>
    ELSE IF Head(entries).id = None
         THEN <<Head(fresh)>> \o AssignedIds(Tail(entries), Tail(fresh))
         ELSE <<Head(entries).id>> \o AssignedIds(Tail(entries), fresh)

\* C39: add_entries returns one id per input entry, in input order: the
\* i-th id is that of the i-th entry, also when entries of different
\* partitions are interleaved.
C39_IdsInInputOrder ==
    \A entries \in ShortBatches \cup TripleBatches :
        \A fresh \in FreshSeqs(entries) :
            LET r == add_entries_result(collections, entries, fresh, NoFault)
            IN  r.ret = "ok" => r.ids = AssignedIds(entries, fresh)

\* The ids of `ids` that belong to entries routed to partition `name`.
IdsRoutedTo(entries, ids, name) ==
    LET at == {i \in 1..Len(entries) : TargetName(entries[i]) = name}
    IN  SelectSeq([i \in 1..Len(entries) |-> IF i \in at THEN <<ids[i]>> ELSE <<>>],
                  LAMBDA x : x # <<>>)

\* What C39 leaves: one id per input entry is returned, and the ids of the
\* entries of one partition stand side by side in input order, the
\* partitions in the order of their first entry; a batch for one partition
\* gets its ids in input order.
C39_IdsGroupedByPartition ==
    \A entries \in ShortBatches \cup TripleBatches :
        \A fresh \in FreshSeqs(entries) :
            LET r == add_entries_result(collections, entries, fresh, NoFault)
                ids == AssignedIds(entries, fresh)
                names == {TargetName(entries[i]) : i \in 1..Len(entries)}
            IN  r.ret = "ok" =>
                    /\ Len(r.ids) = Len(entries)
                    /\ \A n \in names :
                          \E k \in 0..Len(r.ids) :
                              LET mine == IdsRoutedTo(entries, ids, n)
                              IN  /\ k + Len(mine) <= Len(r.ids)
                                  /\ \A j \in 1..Len(mine) : <<r.ids[k + j]>> = mine[j]
                    /\ Cardinality(names) = 1 => r.ids = ids

(***************************************************************************)
(* Properties of what an ingestion run writes.                             *)
(***************************************************************************)
\* The number of points of partition `name` in the store `cols`.
PointCount(cols, name) == IF name \in DOMAIN cols THEN Cardinality(DOMAIN cols[name]) ELSE 0

\* The entries the run has ingested so far.
Ingested == IF run_pc \in {"received", "rejected"} THEN 0 ELSE stats.entries_ingested

\* C40: an ingestion run writes only to the partition of the request's tier
\* and category or tenant_id, each chunk under an id of its own that held no
\* entry before: that partition has grown by exactly entries_ingested
\* points, every entry stored before the run is as it was, and every other
\* partition is unchanged.
C40_RunWritesOnePartition ==
    (run_pc # "idle") =>
        \E before \in RunStores :
            LET target == TargetName(chunk_to_entry(1, req))
            IN  /\ DOMAIN before \subseteq DOMAIN collections
                /\ DOMAIN collections \subseteq DOMAIN before \cup {target}
                /\ \A n \in DOMAIN before :
                      /\ DOMAIN before[n] \subseteq DOMAIN collections[n]
                      /\ \A i \in DOMAIN before[n] : collections[n][i] = before[n][i]
                      /\ n # target => DOMAIN collections[n] = DOMAIN before[n]
                /\ PointCount(collections, target) = PointCount(before, target) + Ingested
                /\ tenant_id_missing(req) => SameStore(collections, before)

\* A run for tenant acme, whose partition held an entry, has returned with
\* two chunks ingested: the partition holds three points.
C40_Witness ==
    /\ run_pc = "returned"
    /\ req.kb_type = TENANT /\ req.tenant_id = <<"acme">>
    /\ stats.entries_ingested = 2
    /\ PointCount(collections, get_tenant_collection_name(<<"acme">>)) = 3
    /\ <<"e1">> \in DOMAIN collections[get_tenant_collection_name(<<"acme">>)]

====
